---- MODULE Spec2Model ----
(***************************************************************************)
(* A model of fastapi_jsonapi: the Schema Registry and Model Registry      *)
(* (schemas_storage.py, models_storage.py) and the response assembler of   *)
(* views/view_base.py (sparse fieldsets, include expansion).               *)
(*                                                                         *)
(* SpecReg  : registration of resources; SchemasStorage.add_resource is    *)
(*            executed one recursion step at a time on an explicit stack.  *)
(* SpecResp : one request against a fully registered application;          *)
(*            _build_detail_response / _build_list_response.               *)
(***************************************************************************)
EXTENDS Integers, Sequences, FiniteSets, TLC

VARIABLES
    data_keys,            \* SchemasStorage._data: the resource types that have a key
    data_ops,             \* SchemasStorage._data[rt][op]: the variant entries
    data_relationships,   \* SchemasStorage._data[rt]["relationships"]
    registered_schemas,   \* SchemasStorage._registered_schemas
    models_data,          \* ModelsStorage._data
    stack,                \* frames of the add_resource calls in progress
    last_call,            \* outcome of the last top-level registry operation
    builds,               \* history: how often line 73 wrote each (rt, op)
    visited,              \* history: (rt, op) pairs entered by the current top-level call
    ops_done,             \* number of top-level registry operations so far
    failures,             \* history: number of top-level add_resource calls that raised
    threads,              \* the add_resource calls of concurrent builders (SpecRace)
    request,              \* the request being served (SpecResp)
    response              \* the response document built for it (SpecResp)

regVars == <<data_keys, data_ops, data_relationships, registered_schemas, models_data,
             stack, last_call, builds, visited, ops_done, failures, threads>>
respVars == <<request, response>>
vars == <<data_keys, data_ops, data_relationships, registered_schemas, models_data, stack,
          last_call, builds, visited, ops_done, failures, threads, request, response>>

None == "None"

(***************************************************************************)
(* Bounds                                                                  *)
(***************************************************************************)
MaxOps == 3          \* top-level registry operations per behaviour
MaxIncludes == 2     \* include paths in one request
MaxDepth == 2        \* segments of one requested include path

(***************************************************************************)
(* The declared schemas: docs/python_snippets/relationships and            *)
(* tests/fixtures/schemas/self_relationship.py                             *)
(***************************************************************************)
OperationTypes == {"create", "update", "get"}

SourceSchemas == {"UserBaseSchema", "UserSchema", "UserBioBaseSchema",
                  "ComputerBaseSchema", "SelfRelationshipAttributesSchema"}

ResourceTypes == {"user", "user_bio", "computer", "self_relationship"}

\* the resource type each schema is registered for / named by RelationshipInfo
SchemaResourceType(schema) ==
    CASE schema = "UserBaseSchema" -> "user"
      [] schema = "UserSchema" -> "user"
      [] schema = "UserBioBaseSchema" -> "user_bio"
      [] schema = "ComputerBaseSchema" -> "computer"
      [] schema = "SelfRelationshipAttributesSchema" -> "self_relationship"

\* the identifier field RelationshipInfo.id_field_name names for a target type
IdFieldName(resource_type) == IF resource_type = "computer" THEN "uuid" ELSE "id"

RelInfo(rt, many, annotation) ==
    [resource_type |-> rt, many |-> many, id_field_name |-> IdFieldName(rt),
     schema |-> annotation]

\* relationship fields of a schema in declaration order: <<name, info>>
DeclaredRelationships(schema) ==
    CASE schema = "UserBaseSchema" ->
            << <<"bio", RelInfo("user_bio", FALSE, "UserBioBaseSchema")>>,
               <<"computers", RelInfo("computer", TRUE, "ComputerBaseSchema")>> >>
      [] schema = "UserSchema" -> << >>
      [] schema = "UserBioBaseSchema" ->
            << <<"user", RelInfo("user", FALSE, "UserSchema")>> >>
      [] schema = "ComputerBaseSchema" ->
            << <<"user", RelInfo("user", FALSE, "UserSchema")>> >>
      [] schema = "SelfRelationshipAttributesSchema" ->
            << <<"parent_object",
                 RelInfo("self_relationship", FALSE, "SelfRelationshipAttributesSchema")>>,
               <<"children_objects",
                 RelInfo("self_relationship", TRUE, "SelfRelationshipAttributesSchema")>> >>

\* validators declared on a schema, in declaration order: <<name, decorator_info.mode>>
DeclaredValidators(schema) ==
    CASE schema = "UserBaseSchema" ->
            << <<"pre_model_validator", "before">>, <<"post_model_validator", "after">> >>
      [] schema = "UserSchema" ->
            << <<"pre_field_validator", "before">>, <<"wrap_validator", "wrap">> >>
      [] schema = "SelfRelationshipAttributesSchema" ->
            << <<"post_field_validator", "after">> >>
      [] OTHER -> << >>

\* field validators declared on a schema for a field, in declaration order:
\* <<name, mode>>
DeclaredFieldValidators(schema, field_name) ==
    IF schema = "UserBaseSchema" /\ field_name = "name"
        THEN << <<"pre_field_validator", "before">>, <<"post_field_validator", "after">> >>
        ELSE << >>

\* the attribute (non-relationship, non-id) fields declared on a schema
DeclaredAttributes(schema) ==
    CASE schema = "UserBaseSchema" -> {"name", "age"}
      [] schema = "UserSchema" -> {"name"}
      [] schema = "UserBioBaseSchema" -> {"birth_city", "favourite_movies"}
      [] schema = "ComputerBaseSchema" -> {"name"}
      [] schema = "SelfRelationshipAttributesSchema" -> {"name"}

(***************************************************************************)
(* The ORM models: docs/python_snippets/relationships/models.py and        *)
(* tests/fixtures/models/self_relationship.py                              *)
(***************************************************************************)
Models == {"User", "UserBio", "Computer", "SelfRelationship"}

\* getattr(model, field_name).property.entity.entity, None when the model
\* has no such relationship attribute
ModelRelationship(model, field_name) ==
    CASE model = "User" /\ field_name = "bio" -> "UserBio"
      [] model = "User" /\ field_name = "computers" -> "Computer"
      [] model = "UserBio" /\ field_name = "user" -> "User"
      [] model = "Computer" /\ field_name = "user" -> "User"
      [] model = "SelfRelationship" /\ field_name = "parent_object" -> "SelfRelationship"
      [] model = "SelfRelationship" /\ field_name = "children_objects" -> "SelfRelationship"
      [] OTHER -> None

(***************************************************************************)
(* ModelsStorage                                                           *)
(***************************************************************************)
\* ModelsStorage.add_model
add_model(md, resource_type, model) == [md EXCEPT ![resource_type] = model]

\* ModelsStorage.get_model: the model, or the error it raises
get_model(md, resource_type) ==
    IF md[resource_type] = None
        THEN [ok |-> FALSE, error |-> "InternalServerError", model |-> None]
        ELSE [ok |-> TRUE, error |-> None, model |-> md[resource_type]]

\* ModelsStorage.search_relationship_model with the registered "sqla" handler
search_relationship_model(resource_type, model, field_name) ==
    IF ModelRelationship(model, field_name) = None
        THEN [ok |-> FALSE, error |-> "BadRequest", model |-> None]
        ELSE [ok |-> TRUE, error |-> None, model |-> ModelRelationship(model, field_name)]

(***************************************************************************)
(* SchemasStorage.add_resource                                             *)
(***************************************************************************)
\* the arguments of one add_resource call; hidden marks the call made at
\* lines 96-119 for a relationship target
AddResourceArgs(schema, resource_type, operation_type, hidden) ==
    [resource_type |-> resource_type,
     operation_type |-> operation_type,
     source_schema |-> schema,
     data_schema |-> <<"data", schema, IF hidden THEN "hidden_generation" ELSE operation_type>>,
     attributes_schema |-> <<"attrs", schema, operation_type>>,
     field_schemas |-> <<"fields", schema, operation_type>>,
     relationships_info |-> DeclaredRelationships(schema),
     model_validators |-> DeclaredValidators(schema)]

\* lines 66-71: the validators split by decorator_info.mode
IsBefore(validator) == validator[2] = "before"
IsNotBefore(validator) == validator[2] # "before"
\* the test of line 68 lost: every validator is a before validator
before_validators_all(model_validators) == model_validators
before_validators(model_validators) == SelectSeq(model_validators, IsBefore)
\* the else branch of line 70 lost: no validator runs after the field schema
after_validators_none(model_validators) == << >>
after_validators(model_validators) == SelectSeq(model_validators, IsNotBefore)

\* lines 73-81: the entry written for the key
NewEntry(args) ==
    [attrs_schema |-> args.attributes_schema,
     field_schemas |-> args.field_schemas,
     data_schema |-> args.data_schema,
     relationships_info |->
        {<<args.relationships_info[i][1], args.relationships_info[i][2]>> :
            i \in 1..Len(args.relationships_info)},
     model_validators |-> <<before_validators(args.model_validators),
                            after_validators(args.model_validators)>>]

\* the value standing for "operation_type not in self._data[resource_type]"
NoEntry ==
    [attrs_schema |-> << >>, field_schemas |-> << >>, data_schema |-> << >>,
     relationships_info |-> {}, model_validators |-> << << >>, << >> >>]

\* the build-if-absent check left out: every call builds
AlreadyBuilt_never(ops, resource_type, operation_type) == FALSE

\* line 63: the build-if-absent check
AlreadyBuilt(ops, resource_type, operation_type) ==
    ops[resource_type][operation_type] # NoEntry

\* the registry as one record, so that a call can be applied to it
Registry ==
    [data_keys |-> data_keys, data_ops |-> data_ops,
     registered_schemas |-> registered_schemas, models_data |-> models_data,
     stack |-> stack, builds |-> builds, visited |-> visited, error |-> None]

\* the entry written only once get_model has returned, the triple before it
EnterAddResource_entry_after_model(r, args) ==
    LET rt == args.resource_type
        op == args.operation_type
        r1 == [r EXCEPT !.data_keys = @ \cup {rt},
                        !.visited = @ \cup {<<rt, op>>}]
    IN  IF AlreadyBuilt(r1.data_ops, rt, op)
            THEN r1
            ELSE LET r2 == [r1 EXCEPT
                                !.registered_schemas =
                                    @ \cup {<<args.source_schema, rt, op>>}]
                     found == get_model(r2.models_data, rt)
                 IN  IF ~found.ok
                         THEN [r2 EXCEPT !.stack = << >>, !.error = found.error]
                         ELSE [r2 EXCEPT
                                  !.data_ops[rt][op] = NewEntry(args),
                                  !.builds[<<rt, op>>] = @ + 1,
                                  !.stack =
                                  Append(@, [args |-> args, model |-> found.model, next |-> 1])]

\* lines 62-83: entering add_resource on registry r with the caller's frames below
EnterAddResource(r, args) ==
    LET rt == args.resource_type
        op == args.operation_type
        r1 == [r EXCEPT !.data_keys = @ \cup {rt},
                        !.visited = @ \cup {<<rt, op>>}]
    IN  IF AlreadyBuilt(r1.data_ops, rt, op)
            THEN r1
            ELSE LET r2 == [r1 EXCEPT
                                !.data_ops[rt][op] = NewEntry(args),
                                !.builds[<<rt, op>>] = @ + 1,
                                !.registered_schemas =
                                    @ \cup {<<args.source_schema, rt, op>>}]
                     found == get_model(r2.models_data, rt)
                 IN  IF ~found.ok
                         THEN [r2 EXCEPT !.stack = << >>, !.error = found.error]
                         ELSE [r2 EXCEPT !.stack =
                                  Append(@, [args |-> args, model |-> found.model, next |-> 1])]

\* line 90 taken for true every time: no relationship target is built
TargetRegistered_always(registered, info) == TRUE

\* line 90: the (source schema, resource type, "get") of the target is registered
TargetRegistered(registered, info) ==
    <<info.schema, info.resource_type, "get">> \in registered

\* lines 87-119: one iteration of the loop over relationships_info in the top frame
StepRelationshipLoop(r) ==
    LET frame == r.stack[Len(r.stack)]
        rel == frame.args.relationships_info[frame.next]
        relationship_name == rel[1]
        info == rel[2]
        relationship_source_schema == info.schema
        advanced == [r EXCEPT !.stack[Len(r.stack)].next = @ + 1]
    IN  IF TargetRegistered(r.registered_schemas, info)
            THEN advanced
            ELSE LET found == search_relationship_model(
                                  frame.args.resource_type, frame.model, relationship_name)
                 IN  IF ~found.ok
                         THEN [r EXCEPT !.stack = << >>, !.error = found.error]
                         ELSE EnterAddResource(
                                  [advanced EXCEPT !.models_data =
                                      add_model(@, info.resource_type, found.model)],
                                  AddResourceArgs(relationship_source_schema,
                                                  info.resource_type, "get", TRUE))

Install(r) ==
    /\ data_keys' = r.data_keys
    /\ data_ops' = r.data_ops
    /\ registered_schemas' = r.registered_schemas
    /\ models_data' = r.models_data
    /\ stack' = r.stack
    /\ builds' = r.builds
    /\ visited' = r.visited

Outcome(r) == IF r.error # None THEN "raised"
              ELSE IF r.stack = << >> THEN "returned" ELSE "running"

\* a top-level call SchemasStorage.add_resource(...)
AddResource(schema, operation_type) ==
    /\ stack = << >>
    /\ ops_done < MaxOps
    /\ LET rt == SchemaResourceType(schema)
           args == AddResourceArgs(schema, rt, operation_type, FALSE)
           r == EnterAddResource([Registry EXCEPT !.visited = {}], args)
       IN  /\ Install(r)
           /\ last_call' = [name |-> "add_resource", key |-> <<rt, operation_type>>,
                            schema |-> schema,
                            existed |-> AlreadyBuilt(data_ops, rt, operation_type),
                            outcome |-> Outcome(r), error |-> r.error, steps |-> 1]
           /\ failures' = IF r.error # None THEN failures + 1 ELSE failures
    /\ ops_done' = ops_done + 1
    /\ UNCHANGED <<data_relationships, threads, request, response>>

\* the next relationship of the innermost add_resource call in progress
StepRelationship ==
    /\ stack # << >>
    /\ stack[Len(stack)].next <= Len(stack[Len(stack)].args.relationships_info)
    /\ LET r == StepRelationshipLoop(Registry)
       IN  /\ Install(r)
           /\ last_call' = [last_call EXCEPT !.outcome = Outcome(r), !.error = r.error,
                                             !.steps = @ + 1]
           /\ failures' = IF r.error # None THEN failures + 1 ELSE failures
    /\ UNCHANGED <<data_relationships, ops_done, threads, request, response>>

\* the innermost add_resource call has processed all its relationships
ReturnFromAddResource ==
    /\ stack # << >>
    /\ stack[Len(stack)].next > Len(stack[Len(stack)].args.relationships_info)
    /\ stack' = SubSeq(stack, 1, Len(stack) - 1)
    /\ last_call' = [last_call EXCEPT !.outcome =
                        IF Len(stack) = 1 THEN "returned" ELSE "running",
                                      !.steps = @ + 1]
    /\ UNCHANGED <<data_keys, data_ops, data_relationships, registered_schemas, models_data,
                   builds, visited, ops_done, failures, threads, request, response>>

\* a top-level call ModelsStorage.add_model(resource_type, model)
AddModel(resource_type, model) ==
    /\ stack = << >>
    /\ ops_done < MaxOps
    /\ models_data' = add_model(models_data, resource_type, model)
    /\ last_call' = [name |-> "add_model", key |-> <<resource_type, None>>,
                     schema |-> None, existed |-> models_data[resource_type] # None,
                     outcome |-> "returned", error |-> None, steps |-> 1]
    /\ ops_done' = ops_done + 1
    /\ UNCHANGED <<data_keys, data_ops, data_relationships, registered_schemas, stack, builds, visited,
                   failures, threads, request, response>>

\* the relationships dicts of a new SchemasStorage: tables are the
\* (from, to) keys the defaultdict holds, entries the
\* (from, to, operation_type, field_name, schema) items stored under them
NoRelationships == [tables |-> {}, entries |-> {}]

\* the arguments add_relationship and get_relationship_schema are called with
RelationshipCalls ==
    {[from |-> "user", to |-> "computer", op |-> "get", field |-> "computers",
      schema |-> "ComputerBaseSchema"],
     [from |-> "computer", to |-> "user", op |-> "get", field |-> "user",
      schema |-> "UserBaseSchema"]}

\* lines 16-20: _init_resource_if_needed(resource_type)
_init_resource_if_needed(keys, resource_type) == keys \cup {resource_type}

\* lines 33-36 of add_relationship: the item written under the (from, to) table
add_relationship(rels, c) ==
    [tables |-> rels.tables \cup {<<c.from, c.to>>},
     entries |-> {x \in rels.entries : <<x[1], x[2], x[3], x[4]>> # <<c.from, c.to, c.op, c.field>>}
                    \cup {<<c.from, c.to, c.op, c.field, c.schema>>}]

\* lines 47-48 of get_relationship_schema: subscripting the defaultdict makes
\* the (from, to) table, then two dict.get
get_relationship_schema(rels, c) ==
    LET hits == {x \in rels.entries :
                    <<x[1], x[2], x[3], x[4]>> = <<c.from, c.to, c.op, c.field>>}
    IN  [rels |-> [rels EXCEPT !.tables = @ \cup {<<c.from, c.to>>}],
         value |-> IF hits = {} THEN None ELSE (CHOOSE x \in hits : TRUE)[5]]

\* what a call on the relationships dicts leaves to its caller
RelationshipCall(name, c, value) ==
    [name |-> name, key |-> <<c.from, c.op>>, schema |-> c.schema, existed |-> FALSE,
     outcome |-> "returned", error |-> None, steps |-> 1, field |-> c.field,
     value |-> value]

\* a top-level call SchemasStorage.add_relationship(...)
AddRelationship(c) ==
    /\ stack = << >>
    /\ ops_done < MaxOps
    /\ data_keys' = _init_resource_if_needed(data_keys, c.from)
    /\ data_relationships' = add_relationship(data_relationships, c)
    /\ last_call' = RelationshipCall("add_relationship", c, None)
    /\ ops_done' = ops_done + 1
    /\ UNCHANGED <<data_ops, registered_schemas, models_data, stack, builds, visited,
                   failures, threads, request, response>>

\* a top-level call SchemasStorage.get_relationship_schema(...)
GetRelationshipSchema(c) ==
    /\ stack = << >>
    /\ ops_done < MaxOps
    /\ data_keys' = _init_resource_if_needed(data_keys, c.from)
    /\ data_relationships' = get_relationship_schema(data_relationships, c).rels
    /\ last_call' = RelationshipCall("get_relationship_schema", c,
                                     get_relationship_schema(data_relationships, c).value)
    /\ ops_done' = ops_done + 1
    /\ UNCHANGED <<data_ops, registered_schemas, models_data, stack, builds, visited,
                   failures, threads, request, response>>

NoRequest == [kind |-> None]
NoResponse == [status |-> None]
NoThreads == << >>
NoCall == [name |-> None, key |-> <<None, None>>, schema |-> None, existed |-> FALSE,
           outcome |-> "returned", error |-> None, steps |-> 0]

\* SchemasStorage.__init__ and ModelsStorage.__init__
InitReg ==
    /\ data_keys = {}
    /\ data_relationships = NoRelationships
    /\ data_ops = [rt \in ResourceTypes |-> [op \in OperationTypes |-> NoEntry]]
    /\ registered_schemas = {}
    /\ models_data = [rt \in ResourceTypes |-> None]
    /\ stack = << >>
    /\ last_call = NoCall
    /\ builds = [k \in ResourceTypes \X OperationTypes |-> 0]
    /\ visited = {}
    /\ ops_done = 0
    /\ failures = 0
    /\ threads = NoThreads
    /\ request = NoRequest
    /\ response = NoResponse

NextReg ==
    \/ \E schema \in SourceSchemas, op \in OperationTypes : AddResource(schema, op)
    \/ \E rt \in ResourceTypes, model \in Models : AddModel(rt, model)
    \/ \E c \in RelationshipCalls : AddRelationship(c)
    \/ \E c \in RelationshipCalls : GetRelationshipSchema(c)
    \/ StepRelationship
    \/ ReturnFromAddResource

SpecReg == InitReg /\ [][NextReg]_vars

(***************************************************************************)
(* Python strings: sequences of characters compared by code point          *)
(***************************************************************************)
\* the characters that occur, in code point order
Alphabet == <<".", "0", "1", "2", "3", "4", "5", "6", "7", "8", "9", "_",
              "a", "b", "c", "d", "e", "f", "g", "h", "i", "j", "k", "l", "m",
              "n", "o", "p", "q", "r", "s", "t", "u", "v", "w", "x", "y", "z">>

Ord(c) == CHOOSE i \in 1..Len(Alphabet) : Alphabet[i] = c

\* the characters of the names used by the declared schemas
Chars(name) ==
    CASE name = "user" -> <<"u", "s", "e", "r">>
      [] name = "user_bio" -> <<"u", "s", "e", "r", "_", "b", "i", "o">>
      [] name = "computer" -> <<"c", "o", "m", "p", "u", "t", "e", "r">>
      [] name = "computers" -> <<"c", "o", "m", "p", "u", "t", "e", "r", "s">>
      [] name = "bio" -> <<"b", "i", "o">>
      [] name = "name" -> <<"n", "a", "m", "e">>
      [] name = "post" -> <<"p", "o", "s", "t">>
      [] name = "posts" -> <<"p", "o", "s", "t", "s">>
      [] name = "self_relationship" ->
            <<"s", "e", "l", "f", "_", "r", "e", "l", "a", "t", "i", "o", "n", "s", "h", "i", "p">>
      [] name = "parent_object" ->
            <<"p", "a", "r", "e", "n", "t", "_", "o", "b", "j", "e", "c", "t">>
      [] name = "children_objects" ->
            <<"c", "h", "i", "l", "d", "r", "e", "n", "_", "o", "b", "j", "e", "c", "t", "s">>

Names == {"user", "user_bio", "computer", "computers", "bio", "name", "post", "posts",
          "self_relationship",
          "parent_object", "children_objects"}

\* str.__lt__
RECURSIVE StrLess(_, _)
StrLess(a, b) ==
    IF b = << >> THEN FALSE
    ELSE IF a = << >> THEN TRUE
    ELSE IF Ord(Head(a)) # Ord(Head(b)) THEN Ord(Head(a)) < Ord(Head(b))
    ELSE StrLess(Tail(a), Tail(b))

\* a startswith that never matches: no include path is dropped
StartsWith_never(a, prefix) == FALSE

\* str.startswith
StartsWith(a, prefix) ==
    /\ Len(prefix) <= Len(a)
    /\ SubSeq(a, 1, Len(prefix)) = prefix

\* str(n) of a non-negative integer
Digit(d) == Alphabet[d + 2]

RECURSIVE PyStr(_)
PyStr(n) == IF n < 10 THEN <<Digit(n)>> ELSE PyStr(n \div 10) \o <<Digit(n % 10)>>

(***************************************************************************)
(* The application a request is served by: the resources of the docs       *)
(* example registered for "get", and the rows of its database              *)
(***************************************************************************)
\* the source schema each resource type was registered with for "get"
ReadSchema(resource_type) ==
    CASE resource_type = "user" -> "UserBaseSchema"
      [] resource_type = "user_bio" -> "UserBioBaseSchema"
      [] resource_type = "computer" -> "ComputerBaseSchema"
      [] resource_type = "self_relationship" -> "SelfRelationshipAttributesSchema"

\* SchemasStorage.get_attrs_schema(resource_type, "get")
get_attrs_schema(resource_type) == data_ops[resource_type]["get"].attrs_schema

\* the fields of an attrs schema
SchemaFields(attrs_schema) == DeclaredAttributes(attrs_schema[2])

\* the None that dict.get returns for a field that is no relationship
NoInfo == [resource_type |-> None, many |-> FALSE, id_field_name |-> None, schema |-> None]

\* SchemasStorage.get_relationship(resource_type, "get", field_name); the
\* field name is a Python string
get_relationship(resource_type, field_name) ==
    LET rels == data_ops[resource_type]["get"].relationships_info
        hits == {rel \in rels : Chars(rel[1]) = field_name}
    IN  IF hits = {} THEN NoInfo ELSE (CHOOSE rel \in hits : TRUE)[2]

\* SchemasStorage.get_model_validators(resource_type, "get")
get_model_validators(resource_type) == data_ops[resource_type]["get"].model_validators

Users == {"u1", "u2"}
UserBios == {"b1"}
Computers == {"c1", "c2"}
Entities == Users \cup UserBios \cup Computers

EntityType(e) ==
    IF e \in Users THEN "user" ELSE IF e \in UserBios THEN "user_bio" ELSE "computer"

\* the integer primary key of a row
PrimaryKey(e) ==
    CASE e = "u1" -> 2
      [] e = "u2" -> 10
      [] e = "b1" -> 1
      [] e = "c1" -> 1
      [] e = "c2" -> 2

\* the uuid column of a computer row
Uuid(e) ==
    CASE e = "c1" -> 9
      [] e = "c2" -> 3

\* getattr(db_item, id_field)
IdAttribute(e, id_field) == IF id_field = "uuid" THEN Uuid(e) ELSE PrimaryKey(e)

\* the databases: computer.user and user_bio.user are the foreign keys,
\* user.computers and user.bio are their back references
Databases ==
    [computer_user : [Computers -> Users \cup {None}],
     bio_user : [UserBios -> {"u1", None}]]

RECURSIVE SeqOfOrdered(_, _)
SeqOfOrdered(order, keep) ==
    IF order = << >> THEN << >>
    ELSE (IF Head(order) \in keep THEN <<Head(order)>> ELSE << >>)
            \o SeqOfOrdered(Tail(order), keep)

\* getattr(db_item, relationship) of a to-many relationship: a list of rows
RelatedMany(db, e, relationship) ==
    IF EntityType(e) = "user" /\ relationship = Chars("computers")
        THEN SeqOfOrdered(<<"c1", "c2">>, {c \in Computers : db.computer_user[c] = e})
        ELSE << >>

\* getattr(db_item, relationship) of a to-one relationship: a row or None
RelatedOne(db, e, relationship) ==
    CASE EntityType(e) = "computer" /\ relationship = Chars("user") -> db.computer_user[e]
      [] EntityType(e) = "user_bio" /\ relationship = Chars("user") -> db.bio_user[e]
      [] EntityType(e) = "user" /\ relationship = Chars("bio") ->
            IF \E b \in UserBios : db.bio_user[b] = e
                THEN CHOOSE b \in UserBios : db.bio_user[b] = e
                ELSE None
      [] OTHER -> None

(***************************************************************************)
(* ViewBase: serialization of one row                                      *)
(***************************************************************************)
\* a dict with no keys
EmptyDict == [k \in {} |-> None]

\* ModelsStorage.get_object_id: the value of the identifier field registered
\* for the resource type
get_object_id(db_item, resource_type) == IdAttribute(db_item, IdFieldName(resource_type))

\* SchemasStorage.get_field_schema(resource_type, "get", field_name)
get_field_schema(resource_type, field_name) ==
    IF field_name \in SchemaFields(get_attrs_schema(resource_type))
        THEN <<"field", data_ops[resource_type]["get"].field_schemas[2], field_name>>
        ELSE None

\* ViewBase._get_include_fields: resource type -> the requested field names in order
\* (each stands for the pair of the name and its get_field_schema)
_get_include_fields(fields) == [rt \in DOMAIN fields |-> fields[rt]]

\* the attributes left out when some type has a selector
AllAttributes_none(db_item, resource_type) == EmptyDict

\* lines 137-143: all attributes of the attrs schema
AllAttributes(db_item, resource_type) ==
    [f \in SchemaFields(get_attrs_schema(resource_type)) |->
        [of |-> db_item, field |-> f, hooks |-> <<"attrs_schema">>]]

\* the selection ignored: every attribute is emitted
RequestedAttributes_all(db_item, resource_type, field_schemas) ==
    [f \in DeclaredAttributes(ReadSchema(resource_type)) |->
        [of |-> db_item, field |-> f, hooks |-> <<"field_schema">>]]

\* the names of a sequence of validators
ValidatorNames(validators) == [i \in DOMAIN validators |-> validators[i][1]]

\* line 160: field_schema(**{field_name: value}); the field's validators of
\* mode "before" run ahead of the coercion to the field's type, the others
\* after it
FieldSchemaHooks(field_schema) ==
    LET declared == DeclaredFieldValidators(field_schema[2], field_schema[3])
    IN  ValidatorNames(SelectSeq(declared, IsBefore))
            \o <<"field_schema">>
            \o ValidatorNames(SelectSeq(declared, IsNotBefore))

\* lines 145-167: the requested attributes, each run through the before
\* validators, its field schema and the after validators
RequestedAttributes(db_item, resource_type, field_schemas) ==
    LET requested == {field_schemas[i] : i \in 1..Len(field_schemas)}
        validators == get_model_validators(resource_type)
    IN  IF "" \in requested
            THEN EmptyDict
            ELSE [f \in requested |->
                    [of |-> db_item, field |-> f,
                     hooks |-> ValidatorNames(validators[1])
                               \o FieldSchemaHooks(get_field_schema(resource_type, f))
                               \o ValidatorNames(validators[2])]]

\* ViewBase._prepare_item_data; db_item and origin are bookkeeping of the
\* model (which row the dict was made from, and by which call site)
_prepare_item_data(db_item, resource_type, include_fields, origin) ==
    LET field_schemas == IF resource_type \in DOMAIN include_fields
                            THEN include_fields[resource_type] ELSE << >>
    IN  IF field_schemas = << >>
            THEN [id |-> PyStr(PrimaryKey(db_item)),
                  type |-> resource_type,
                  attributes |-> AllAttributes(db_item, resource_type),
                  has_relationships |-> FALSE, relationships |-> EmptyDict,
                  db_item |-> db_item, origin |-> origin]
            ELSE [id |-> PyStr(get_object_id(db_item, resource_type)),
                  type |-> resource_type,
                  attributes |-> RequestedAttributes(db_item, resource_type, field_schemas),
                  has_relationships |-> FALSE, relationships |-> EmptyDict,
                  db_item |-> db_item, origin |-> origin]

(***************************************************************************)
(* ViewBase: include paths                                                 *)
(***************************************************************************)
\* ".".join(path)
RECURSIVE Dotted(_)
Dotted(path) ==
    IF Len(path) = 1 THEN Chars(path[1])
    ELSE Chars(path[1]) \o <<".">> \o Dotted(Tail(path))

\* str.split(".")
RECURSIVE SplitDots(_, _)
SplitDots(str, current) ==
    IF str = << >> THEN <<current>>
    ELSE IF Head(str) = "." THEN <<current>> \o SplitDots(Tail(str), << >>)
    ELSE SplitDots(Tail(str), Append(current, Head(str)))

\* sorted(strings)
RECURSIVE InsertSorted(_, _)
InsertSorted(x, sorted) ==
    IF sorted = << >> THEN <<x>>
    ELSE IF StrLess(x, Head(sorted)) THEN <<x>> \o sorted
    ELSE <<Head(sorted)>> \o InsertSorted(x, Tail(sorted))

RECURSIVE Sorted(_)
Sorted(strings) ==
    IF strings = << >> THEN << >>
    ELSE InsertSorted(strings[Len(strings)], Sorted(SubSeq(strings, 1, Len(strings) - 1)))

\* lines 180-184: the loop of _prepare_include_params from position i on
RECURSIVE IncludeLoop(_, _, _, _)
IncludeLoop(includes, i, prev, result) ==
    IF i > Len(includes)
        THEN Append(result, SplitDots(prev, << >>))
        ELSE IncludeLoop(includes, i + 1, includes[i],
                         IF ~StartsWith(includes[i], prev)
                             THEN Append(result, SplitDots(prev, << >>))
                             ELSE result)

\* ViewBase._prepare_include_params
_prepare_include_params(include) ==
    LET includes == Sorted(include)
    IN  IncludeLoop(includes, 1, includes[1], << >>)

\* ViewBase._get_include_key
_get_include_key(db_item, info) ==
    <<info.resource_type, PyStr(IdAttribute(db_item, info.id_field_name))>>

(***************************************************************************)
(* ViewBase._process_includes.  The dicts live in a heap (a sequence), so  *)
(* that a dict shared by items_data and result_included is one object; m   *)
(* carries the heap, the error raised so far and the traversal history.    *)
(***************************************************************************)
Linkage(db_item, info) ==
    [id |-> PyStr(IdAttribute(db_item, info.id_field_name)), type |-> info.resource_type]

SetRelationship(m, ref, target_relationship, relationship_data) ==
    [m EXCEPT !.heap[ref].relationships = (target_relationship :> relationship_data) @@ @]

\* lines 223 and 252: result_included.get(include_key) finds nothing, so the
\* row is serialized again
Cached_never(included, include_key) == FALSE

\* lines 223 and 252: result_included.get(include_key) finds a dict
Cached(included, include_key) == include_key \in DOMAIN included

\* line 241 written as an empty to-many linkage
NullLinkage_as_list == [kind |-> "many", links |-> << >>]

\* line 241: {"data": None}
NullLinkage == [kind |-> "null", links |-> << >>]

\* a linkage appended only inside the branch of line 223, for the rows that
\* were not in result_included
ToManyLinkage_uncached(included, related, info) ==
    LET fresh == SelectSeq(related,
                           LAMBDA row : ~Cached(included, _get_include_key(row, info)))
    IN  [kind |-> "many", links |-> [i \in 1..Len(fresh) |-> Linkage(fresh[i], info)]]

\* lines 219 and 231-236: relationship_data, one linkage per row of the
\* collection, appended outside the branch of line 223
ToManyLinkage(included, related, info) ==
    [kind |-> "many", links |-> [i \in 1..Len(related) |-> Linkage(related[i], info)]]

\* lines 220-238: the loop over a to-many relationship from position i on
RECURSIVE ManyLoop(_, _, _, _, _, _)
ManyLoop(m, included, related, info, include_fields, i) ==
    IF i > Len(related) THEN [m |-> m, included |-> included, refs |-> << >>]
    ELSE LET include_key == _get_include_key(related[i], info)
             hit == Cached(included, include_key)
             ref == IF hit THEN included[include_key] ELSE Len(m.heap) + 1
             m1 == IF hit THEN m
                   ELSE [m EXCEPT !.heap = Append(@,
                            _prepare_item_data(related[i], info.resource_type,
                                               include_fields, "to_many"))]
             included1 == IF hit THEN included ELSE (include_key :> ref) @@ included
             rest == ManyLoop(m1, included1, related, info, include_fields, i + 1)
         IN  [rest EXCEPT !.refs = <<ref>> \o @]

\* line 253: the include_fields the to-one branch hands to _prepare_item_data
ToOneIncludeFields(include_fields) == EmptyDict

RECURSIVE _process_includes(_, _, _, _, _, _, _, _, _)
RECURSIVE PathsLoop(_, _, _, _, _, _, _, _, _)
RECURSIVE ItemsLoop(_, _, _, _, _, _, _, _, _)

\* the recursive call made without result_included: what it adds is lost
Deeper_fresh(db, m, included, db_items, refs, info, include_path, include_fields, depth) ==
    IF include_path = << >> THEN [m |-> m, included |-> included]
    ELSE [m |-> _process_includes(db, m, EmptyDict, db_items, refs, info.resource_type,
                                  <<include_path>>, include_fields, depth + 1).m,
          included |-> included]

\* lines 258-266: the recursive call; the callee replaces an empty
\* result_included by a new dict (line 202), which the caller never sees
Deeper(db, m, included, db_items, refs, info, include_path, include_fields, depth) ==
    IF include_path = << >> THEN [m |-> m, included |-> included]
    ELSE LET inner == _process_includes(db, m, included, db_items, refs,
                                        info.resource_type, <<include_path>>,
                                        include_fields, depth + 1)
         IN  [m |-> inner.m,
              included |-> IF DOMAIN included = {} THEN included ELSE inner.included]

\* the call at the roots hands its whole path down
RemainingPath_whole_at_roots(path, depth) == IF depth = 1 THEN path ELSE Tail(path)

\* line 208: target_relationship, *include_path = path
RemainingPath(path, depth) == Tail(path)

\* lines 207-268: the loop over include_paths for one parent, from position j on
PathsLoop(db, m, included, db_item, ref, resource_type, include_paths, include_fields, depth) ==
    IF include_paths = << >> \/ m.error # None THEN [m |-> m, included |-> included]
    ELSE
    LET path == Head(include_paths)
        target_relationship == Head(path)
        include_path == RemainingPath(path, depth)
        info == get_relationship(resource_type, target_relationship)
        m0 == [m EXCEPT !.events = Append(@, <<depth, ref, target_relationship>>)]
    IN  IF info = NoInfo
            THEN [m |-> [m0 EXCEPT !.error = "AttributeError"], included |-> included]
        ELSE IF info.many
            THEN LET related == RelatedMany(db, db_item, target_relationship)
                     loop == ManyLoop(m0, included, related, info, include_fields, 1)
                     relationship_data == ToManyLinkage(included, related, info)
                     deep == Deeper(db, loop.m, loop.included, related, loop.refs, info,
                                    include_path, include_fields, depth)
                 IN  PathsLoop(db, SetRelationship(deep.m, ref, target_relationship,
                                                   relationship_data),
                               deep.included, db_item, ref, resource_type,
                               Tail(include_paths), include_fields, depth)
        ELSE LET relationship_db_item == RelatedOne(db, db_item, target_relationship)
             IN  IF relationship_db_item = None
                     THEN PathsLoop(db, SetRelationship(m0, ref, target_relationship,
                                                        NullLinkage),
                                    included, db_item, ref, resource_type,
                                    Tail(include_paths), include_fields, depth)
                     ELSE
                     LET include_key == _get_include_key(relationship_db_item, info)
                         hit == Cached(included, include_key)
                         item_ref == IF hit THEN included[include_key] ELSE Len(m0.heap) + 1
                         m1 == IF hit THEN m0
                               ELSE [m0 EXCEPT !.heap = Append(@,
                                        _prepare_item_data(relationship_db_item,
                                            info.resource_type,
                                            ToOneIncludeFields(include_fields), "to_one"))]
                         included1 == IF hit THEN included
                                      ELSE (include_key :> item_ref) @@ included
                         relationship_data ==
                            [kind |-> "one", links |-> <<Linkage(relationship_db_item, info)>>]
                         deep == Deeper(db, m1, included1, <<relationship_db_item>>,
                                        <<item_ref>>, info, include_path, include_fields, depth)
                     IN  PathsLoop(db, SetRelationship(deep.m, ref, target_relationship,
                                                       relationship_data),
                                   deep.included, db_item, ref, resource_type,
                                   Tail(include_paths), include_fields, depth)

\* lines 204-205: the loop over zip(db_items, items_data) from position i on
ItemsLoop(db, m, included, db_items, refs, resource_type, include_paths, include_fields, depth) ==
    IF db_items = << >> \/ refs = << >> \/ m.error # None
        THEN [m |-> m, included |-> included]
    ELSE LET ref == Head(refs)
             m1 == [m EXCEPT !.heap[ref].has_relationships = TRUE]
             done == PathsLoop(db, m1, included, Head(db_items), ref, resource_type,
                               include_paths, include_fields, depth)
         IN  ItemsLoop(db, done.m, done.included, Tail(db_items), Tail(refs),
                       resource_type, include_paths, include_fields, depth)

\* ViewBase._process_includes; the result is the heap and the dict it returns
_process_includes(db, m, result_included, db_items, refs, resource_type, include_paths, include_fields, depth) ==
    ItemsLoop(db, m, result_included, db_items, refs, resource_type, include_paths,
              include_fields, depth)

(***************************************************************************)
(* ViewBase._build_detail_response and ViewBase._build_list_response       *)
(***************************************************************************)
\* sorted(included.items(), key=lambda item: item[0]): tuples of two strings
KeyLess(k1, k2) ==
    \/ StrLess(Chars(k1[1]), Chars(k2[1]))
    \/ k1[1] = k2[1] /\ StrLess(k1[2], k2[2])

RECURSIVE SortedKeys(_)
SortedKeys(keys) ==
    IF keys = {} THEN << >>
    ELSE LET least == CHOOSE k \in keys : \A other \in keys \ {k} : KeyLess(k, other)
         IN  <<least>> \o SortedKeys(keys \ {least})

\* lines 300-301 and 326-329: the root dicts, the first objects of the heap
RootItems(items, resource_type, include_fields) ==
    [i \in 1..Len(items) |-> _prepare_item_data(items[i], resource_type, include_fields, "root")]

\* app.config["MAX_INCLUDE_DEPTH"]
MAX_INCLUDE_DEPTH == 5

\* the positions of the requested paths with more segments than the limit
TooDeep(include) ==
    {i \in 1..Len(include) : Len(SplitDots(include[i], << >>)) > MAX_INCLUDE_DEPTH}

\* the include parameter handed over without a look at its depth
query_params_include_unchecked(include) ==
    [ok |-> TRUE, error |-> None, detail |-> None, include |-> include]

\* self.query_params.include: the requested paths, or InvalidIncludeError
\* naming the first path that is deeper than MAX_INCLUDE_DEPTH
query_params_include(include) ==
    IF TooDeep(include) = {}
        THEN [ok |-> TRUE, error |-> None, detail |-> None, include |-> include]
        ELSE [ok |-> FALSE, error |-> "InvalidIncludeError",
              detail |-> include[CHOOSE i \in TooDeep(include) :
                                    \A j \in TooDeep(include) : i <= j],
              include |-> << >>]

\* an exception leaves the builder: there is no document
NoDocument(error, detail, m) ==
    [status |-> error, detail |-> detail, data |-> << >>, has_included |-> FALSE,
     included |-> << >>, included_keys |-> << >>, heap |-> m.heap, events |-> m.events]

\* the document of either builder; heap and events are the history of the build
BuildResponse(req) ==
    LET include_fields == _get_include_fields(req.fields)
        m0 == [heap |-> RootItems(req.items, req.resource_type, include_fields),
               error |-> None, events |-> << >>]
        refs == [i \in 1..Len(req.items) |-> i]
        query == query_params_include(req.include)
    IN  IF ~query.ok
            THEN NoDocument(query.error, query.detail, m0)
        ELSE IF query.include = << >>
            THEN [status |-> "ok", detail |-> None, data |-> m0.heap, has_included |-> FALSE,
                  included |-> << >>, included_keys |-> << >>,
                  heap |-> m0.heap, events |-> << >>]
            ELSE LET done == _process_includes(req.db, m0, EmptyDict, req.items, refs,
                                 req.resource_type, _prepare_include_params(query.include),
                                 include_fields, 1)
                     keys == SortedKeys(DOMAIN done.included)
                 IN  IF done.m.error # None
                         THEN NoDocument(done.m.error, None, done.m)
                         ELSE [status |-> "ok", detail |-> None,
                               data |-> SubSeq(done.m.heap, 1, Len(req.items)),
                               has_included |-> TRUE,
                               included |-> [i \in 1..Len(keys) |->
                                                done.m.heap[done.included[keys[i]]]],
                               included_keys |-> keys,
                               heap |-> done.m.heap, events |-> done.m.events]

\* ViewBase._build_detail_response(db_item)
BuildDetailResponse ==
    /\ request.kind = "detail"
    /\ response = NoResponse
    /\ response' = BuildResponse(request)
    /\ UNCHANGED <<regVars, request>>

\* ViewBase._build_list_response(items_from_db, count, total_pages)
BuildListResponse ==
    /\ request.kind = "list"
    /\ response = NoResponse
    /\ response' = BuildResponse(request)
    /\ UNCHANGED <<regVars, request>>

(***************************************************************************)
(* The requests                                                            *)
(***************************************************************************)
RelationshipNames(resource_type) ==
    LET rels == DeclaredRelationships(ReadSchema(resource_type))
    IN  {rels[i][1] : i \in 1..Len(rels)}

\* the relationship paths of at most depth segments that start at a resource type
RelationshipTarget(resource_type, r) ==
    LET rels == DeclaredRelationships(ReadSchema(resource_type))
    IN  rels[CHOOSE i \in 1..Len(rels) : rels[i][1] = r][2].resource_type

RECURSIVE Paths(_, _)
Paths(resource_type, depth) ==
    IF depth = 0 THEN {}
    ELSE UNION {
            {<<r>>} \cup {<<r>> \o p : p \in Paths(RelationshipTarget(resource_type, r),
                                                    depth - 1)} :
            r \in RelationshipNames(resource_type)}

\* the elements of a set as a list
RECURSIVE ListOf(_)
ListOf(S) == IF S = {} THEN << >>
             ELSE LET x == CHOOSE y \in S : TRUE IN ListOf(S \ {x}) \o <<x>>

SubsetsUpTo(S, n) == {T \in SUBSET S : Cardinality(T) <= n}

RootTypes == {"user", "computer"}

\* the rows handed to the builder: one row, or a page of rows in either order
RootLists(resource_type) ==
    IF resource_type = "user" THEN {<<"u1">>, <<"u1", "u2">>, <<"u2", "u1">>}
    ELSE {<<"c2">>, <<"c1", "c2">>, <<"c2", "c1">>}

\* query_params.fields: absent, the empty selector, or names of attributes
FieldsOptions ==
    {EmptyDict,
     [rt \in {"user_bio"} |-> <<"">>],
     [rt \in {"computer"} |-> <<"name">>],
     [user |-> <<"name">>, user_bio |-> <<"birth_city">>, computer |-> <<"">>],
     [user |-> <<"">>, user_bio |-> <<"favourite_movies", "birth_city">>]}

\* paths as long as MAX_INCLUDE_DEPTH allows, and one segment longer
RECURSIVE Alternate(_, _, _)
Alternate(a, b, n) == IF n = 0 THEN << >> ELSE <<a>> \o Alternate(b, a, n - 1)

DeepPaths(rt) ==
    IF rt = "user"
        THEN {Alternate("bio", "user", MAX_INCLUDE_DEPTH),
              Alternate("bio", "user", MAX_INCLUDE_DEPTH + 1)}
        ELSE {Alternate("user", "computers", MAX_INCLUDE_DEPTH),
              Alternate("user", "computers", MAX_INCLUDE_DEPTH + 1)}

\* paths with a segment that is an attribute, not a relationship
UndeclaredPaths(rt) ==
    IF rt = "user" THEN {<<"name">>, <<"bio", "name">>}
    ELSE {<<"name">>, <<"user", "name">>}

\* the include parameters: some declared paths, or a deep or undeclared
\* path alone or next to a relationship of the root
IncludeSets(rt) ==
    SubsetsUpTo(Paths(rt, MaxDepth), MaxIncludes)
        \cup {{p} : p \in DeepPaths(rt) \cup UndeclaredPaths(rt)}
        \cup {{p, q} : p \in DeepPaths(rt) \cup UndeclaredPaths(rt), q \in Paths(rt, 1)}

RequestsFor(rt, items) ==
    {[kind |-> kind, resource_type |-> rt, db |-> db, items |-> items,
      include |-> [i \in 1..Cardinality(paths) |-> Dotted(ListOf(paths)[i])],
      fields |-> fields] :
        kind \in {IF Len(items) = 1 THEN "detail" ELSE "list"},
        db \in Databases,
        paths \in IncludeSets(rt),
        fields \in FieldsOptions}

Requests == UNION {UNION {RequestsFor(rt, items) : items \in RootLists(rt)} : rt \in RootTypes}

\* the registries after every resource of the application was registered
RegisteredEntry(resource_type, operation_type) ==
    IF operation_type = "get"
        THEN NewEntry(AddResourceArgs(ReadSchema(resource_type), resource_type, "get", FALSE))
        ELSE NoEntry

RegisteredModel(resource_type) ==
    CASE resource_type = "user" -> "User"
      [] resource_type = "user_bio" -> "UserBio"
      [] resource_type = "computer" -> "Computer"
      [] resource_type = "self_relationship" -> "SelfRelationship"

\* a request has arrived at an application whose registries are filled
InitResp ==
    /\ data_keys = ResourceTypes
    /\ data_relationships = NoRelationships
    /\ data_ops = [rt \in ResourceTypes |->
                      [op \in OperationTypes |-> RegisteredEntry(rt, op)]]
    /\ registered_schemas = {<<ReadSchema(rt), rt, "get">> : rt \in ResourceTypes}
    /\ models_data = [rt \in ResourceTypes |-> RegisteredModel(rt)]
    /\ stack = << >>
    /\ last_call = NoCall
    /\ builds = [k \in ResourceTypes \X OperationTypes |-> IF k[2] = "get" THEN 1 ELSE 0]
    /\ visited = {}
    /\ ops_done = 0
    /\ failures = 0
    /\ threads = NoThreads
    /\ request \in Requests
    /\ response = NoResponse

NextResp == BuildDetailResponse \/ BuildListResponse

SpecResp == InitResp /\ [][NextResp]_vars

(***************************************************************************)
(* The lookups of both registries, applied to a registry after setup       *)
(***************************************************************************)
\* self._data[resource_type][operation_type]: a KeyError when either key is absent
Subscript(resource_type, operation_type) ==
    IF resource_type \notin data_keys \/ data_ops[resource_type][operation_type] = NoEntry
        THEN [ok |-> FALSE, error |-> "KeyError", entry |-> NoEntry]
        ELSE [ok |-> TRUE, error |-> None, entry |-> data_ops[resource_type][operation_type]]

\* what a lookup that returns, or raises, leaves to its caller
Returned(name, resource_type, operation_type, field_name, value) ==
    [name |-> name, key |-> <<resource_type, operation_type>>, field |-> field_name,
     outcome |-> "returned", error |-> None, value |-> value]

Raised(name, resource_type, operation_type, field_name, error) ==
    [name |-> name, key |-> <<resource_type, operation_type>>, field |-> field_name,
     outcome |-> "raised", error |-> error, value |-> None]

\* a lookup that only subscripts self._data[resource_type][operation_type][part]
SubscriptLookup(name, resource_type, operation_type, value) ==
    IF Subscript(resource_type, operation_type).ok
        THEN Returned(name, resource_type, operation_type, None, value)
        ELSE Raised(name, resource_type, operation_type, None,
                    Subscript(resource_type, operation_type).error)

\* dict.get(field_name) on the part of an entry: None when the key is absent
DictGetLookup(name, resource_type, operation_type, field_name, present, value) ==
    IF ~Subscript(resource_type, operation_type).ok
        THEN Raised(name, resource_type, operation_type, field_name,
                    Subscript(resource_type, operation_type).error)
        ELSE Returned(name, resource_type, operation_type, field_name,
                      IF present THEN value ELSE None)

\* the relationships_info of an entry under a field name
RelationshipsNamed(entry, field_name) ==
    {rel \in entry.relationships_info : rel[1] = field_name}

LookupFrame == UNCHANGED <<data_keys, data_ops, data_relationships, registered_schemas, models_data, stack,
                           builds, visited, ops_done, failures, threads, request,
                           response>>

\* ModelsStorage.get_model(resource_type)
GetModel(resource_type) ==
    /\ last_call' =
          IF get_model(models_data, resource_type).ok
              THEN Returned("get_model", resource_type, None, None,
                            get_model(models_data, resource_type).model)
              ELSE Raised("get_model", resource_type, None, None,
                          get_model(models_data, resource_type).error)
    /\ LookupFrame

\* SchemasStorage.get_data_schema(resource_type, operation_type)
GetDataSchema(resource_type, operation_type) ==
    /\ last_call' = SubscriptLookup("get_data_schema", resource_type, operation_type,
                                    data_ops[resource_type][operation_type].data_schema)
    /\ LookupFrame

\* SchemasStorage.get_attrs_schema(resource_type, operation_type)
GetAttrsSchema(resource_type, operation_type) ==
    /\ last_call' = SubscriptLookup("get_attrs_schema", resource_type, operation_type,
                                    data_ops[resource_type][operation_type].attrs_schema)
    /\ LookupFrame

\* SchemasStorage.get_model_validators(resource_type, operation_type)
GetModelValidators(resource_type, operation_type) ==
    /\ last_call' = SubscriptLookup("get_model_validators", resource_type, operation_type,
                                    data_ops[resource_type][operation_type].model_validators)
    /\ LookupFrame

\* SchemasStorage.get_field_schema(resource_type, operation_type, field_name)
GetFieldSchema(resource_type, operation_type, field_name) ==
    /\ LET entry == data_ops[resource_type][operation_type]
       IN  last_call' = DictGetLookup("get_field_schema", resource_type, operation_type,
                            field_name,
                            field_name \in DeclaredAttributes(entry.field_schemas[2]),
                            <<"field", entry.field_schemas[2], field_name>>)
    /\ LookupFrame

\* SchemasStorage.get_relationship(resource_type, operation_type, field_name)
GetRelationship(resource_type, operation_type, field_name) ==
    /\ LET entry == data_ops[resource_type][operation_type]
           hits == RelationshipsNamed(entry, field_name)
       IN  last_call' = DictGetLookup("get_relationship", resource_type, operation_type,
                            field_name, hits # {},
                            (CHOOSE rel \in hits : TRUE)[2])
    /\ LookupFrame

\* the field names asked for: an attribute, and relationships of some schemas
LookupFields == {"name", "bio", "user"}

\* the sets of resource types an application may have registered for "get":
\* with a resource type, the targets of its relationships
RegisteredSets ==
    {S \in SUBSET ResourceTypes :
        \A rt \in S : \A r \in RelationshipNames(rt) : RelationshipTarget(rt, r) \in S}

\* the registries after the setup of an application
InitLookup ==
    /\ \E S \in RegisteredSets :
          /\ data_keys = S
          /\ data_relationships = NoRelationships
          /\ data_ops = [rt \in ResourceTypes |->
                            [op \in OperationTypes |->
                                IF rt \in S THEN RegisteredEntry(rt, op) ELSE NoEntry]]
          /\ registered_schemas = {<<ReadSchema(rt), rt, "get">> : rt \in S}
          /\ models_data = [rt \in ResourceTypes |->
                               IF rt \in S THEN RegisteredModel(rt) ELSE None]
          /\ builds = [k \in ResourceTypes \X OperationTypes |->
                          IF k[1] \in S /\ k[2] = "get" THEN 1 ELSE 0]
    /\ stack = << >>
    /\ last_call = NoCall
    /\ visited = {}
    /\ ops_done = 0
    /\ failures = 0
    /\ threads = NoThreads
    /\ request = NoRequest
    /\ response = NoResponse

NextLookup ==
    \/ \E rt \in ResourceTypes : GetModel(rt)
    \/ \E rt \in ResourceTypes, op \in OperationTypes : GetDataSchema(rt, op)
    \/ \E rt \in ResourceTypes, op \in OperationTypes : GetAttrsSchema(rt, op)
    \/ \E rt \in ResourceTypes, op \in OperationTypes : GetModelValidators(rt, op)
    \/ \E rt \in ResourceTypes, op \in OperationTypes, f \in LookupFields :
          GetFieldSchema(rt, op, f)
    \/ \E rt \in ResourceTypes, op \in OperationTypes, f \in LookupFields :
          GetRelationship(rt, op, f)
    \/ \E c \in RelationshipCalls : GetRelationshipSchema(c)

SpecLookup == InitLookup /\ [][NextLookup]_vars

(***************************************************************************)
(* Two builders that call add_resource with the same arguments and         *)
(* interleave between the statements of the method.  Each has its own call *)
(* stack; a frame is at the check of line 63 ("check"), before the write   *)
(* of line 73 ("write"), before lines 82-83 ("register") or in the loop of *)
(* line 87 ("loop").                                                       *)
(***************************************************************************)
Builders == {1, 2}

CallFrame(args) == [args |-> args, model |-> None, next |-> 1, pc |-> "check"]

Top(t) == threads[t].stack[Len(threads[t].stack)]

At(t, pc) == threads[t].status = "running" /\ Top(t).pc = pc

\* the frames of builder t with the top frame replaced
WithTop(t, frame) ==
    [threads EXCEPT ![t].stack[Len(threads[t].stack)] = frame]

\* the top call of builder t returns to its caller
Popped(t) ==
    [threads EXCEPT ![t].stack = SubSeq(@, 1, Len(@) - 1),
                    ![t].status = IF Len(threads[t].stack) = 1 THEN "returned" ELSE "running"]

\* an exception unwinds every call of builder t
Unwound(t, error) ==
    [threads EXCEPT ![t].stack = << >>, ![t].status = "raised", ![t].error = error]

\* the write replaces the dict of the resource type instead of setting one key
WriteEntry_reset(ops, resource_type, operation_type, entry) ==
    [ops EXCEPT ![resource_type] =
        [op \in OperationTypes |-> IF op = operation_type THEN entry ELSE NoEntry]]

\* line 73: self._data[resource_type][operation_type] = {...}
WriteEntry(ops, resource_type, operation_type, entry) ==
    [ops EXCEPT ![resource_type][operation_type] = entry]

RaceFrame == UNCHANGED <<data_relationships, stack, last_call, visited, ops_done, failures,
                        request, response>>

\* lines 62-64 of the top call of builder t
RaceCheck(t) ==
    /\ At(t, "check")
    /\ data_keys' = data_keys \cup {Top(t).args.resource_type}
    /\ threads' = IF AlreadyBuilt(data_ops, Top(t).args.resource_type,
                                  Top(t).args.operation_type)
                      THEN Popped(t)
                      ELSE WithTop(t, [Top(t) EXCEPT !.pc = "write"])
    /\ UNCHANGED <<data_ops, registered_schemas, models_data, builds>>
    /\ RaceFrame

\* lines 66-81
RaceWrite(t) ==
    /\ At(t, "write")
    /\ LET args == Top(t).args
       IN  /\ data_ops' = WriteEntry(data_ops, args.resource_type, args.operation_type,
                                     NewEntry(args))
           /\ builds' = [builds EXCEPT ![<<args.resource_type, args.operation_type>>] = @ + 1]
    /\ threads' = WithTop(t, [Top(t) EXCEPT !.pc = "register"])
    /\ UNCHANGED <<data_keys, registered_schemas, models_data>>
    /\ RaceFrame

\* lines 82-83
RaceRegister(t) ==
    /\ At(t, "register")
    /\ LET args == Top(t).args
           found == get_model(models_data, args.resource_type)
       IN  /\ registered_schemas' = registered_schemas \cup
                    {<<args.source_schema, args.resource_type, args.operation_type>>}
           /\ threads' = IF found.ok
                             THEN WithTop(t, [Top(t) EXCEPT !.pc = "loop",
                                                            !.model = found.model])
                             ELSE Unwound(t, found.error)
    /\ UNCHANGED <<data_keys, data_ops, models_data, builds>>
    /\ RaceFrame

\* lines 87-119: one iteration of the loop, up to the call of line 109
RaceRelationship(t) ==
    /\ At(t, "loop")
    /\ Top(t).next <= Len(Top(t).args.relationships_info)
    /\ LET frame == Top(t)
           rel == frame.args.relationships_info[frame.next]
           info == rel[2]
           advanced == WithTop(t, [frame EXCEPT !.next = @ + 1])
           found == search_relationship_model(frame.args.resource_type, frame.model, rel[1])
       IN  IF TargetRegistered(registered_schemas, info)
               THEN /\ threads' = advanced
                    /\ UNCHANGED models_data
           ELSE IF ~found.ok
               THEN /\ threads' = Unwound(t, found.error)
                    /\ UNCHANGED models_data
           ELSE /\ models_data' = add_model(models_data, info.resource_type, found.model)
                /\ threads' = [advanced EXCEPT ![t].stack = Append(@,
                                  CallFrame(AddResourceArgs(info.schema, info.resource_type,
                                                            "get", TRUE)))]
    /\ UNCHANGED <<data_keys, data_ops, registered_schemas, builds>>
    /\ RaceFrame

\* the loop of the top call of builder t is over: the call returns
RaceReturn(t) ==
    /\ At(t, "loop")
    /\ Top(t).next > Len(Top(t).args.relationships_info)
    /\ threads' = Popped(t)
    /\ UNCHANGED <<data_keys, data_ops, registered_schemas, models_data, builds>>
    /\ RaceFrame

\* the models are registered, no schema is; both builders are about to run
\* add_resource for the same schema and operation type
InitRace ==
    /\ data_keys = {}
    /\ data_relationships = NoRelationships
    /\ data_ops = [rt \in ResourceTypes |-> [op \in OperationTypes |-> NoEntry]]
    /\ registered_schemas = {}
    /\ models_data = [rt \in ResourceTypes |-> RegisteredModel(rt)]
    /\ stack = << >>
    /\ last_call = NoCall
    /\ builds = [k \in ResourceTypes \X OperationTypes |-> 0]
    /\ visited = {}
    /\ ops_done = 0
    /\ failures = 0
    /\ \E schema \in SourceSchemas, op \in OperationTypes :
          threads = [t \in Builders |->
              [stack |-> <<CallFrame(AddResourceArgs(schema, SchemaResourceType(schema),
                                                     op, FALSE))>>,
               status |-> "running", error |-> None,
               call |-> AddResourceArgs(schema, SchemaResourceType(schema), op, FALSE)]]
    /\ request = NoRequest
    /\ response = NoResponse

NextRace ==
    \/ \E t \in Builders : RaceCheck(t)
    \/ \E t \in Builders : RaceWrite(t)
    \/ \E t \in Builders : RaceRegister(t)
    \/ \E t \in Builders : RaceRelationship(t)
    \/ \E t \in Builders : RaceReturn(t)

SpecRace == InitRace /\ [][NextRace]_vars

(***************************************************************************)
(* Properties of the registries                                            *)
(***************************************************************************)
RegistryKeys == ResourceTypes \X OperationTypes

HasEntry(k) == data_ops[k[1]][k[2]] # NoEntry

\* the longest relationships_info any declared schema has
MaxRelationships ==
    CHOOSE n \in 0..8 :
        /\ \A s \in SourceSchemas : Len(DeclaredRelationships(s)) <= n
        /\ \E s \in SourceSchemas : Len(DeclaredRelationships(s)) = n

\* C1: over the self-referential and cyclic declarations, add_resource
\* terminates (its recursion depth and its number of steps are bounded by
\* the number of resource types), no (resource_type, operation_type) pair
\* is ever written twice, and when the call returns every pair it visited
\* has its one entry.
C1_OneBuildPerPair ==
    /\ Len(stack) <= Cardinality(ResourceTypes) + 1
    /\ last_call.steps <= (Cardinality(ResourceTypes) + 2) * (MaxRelationships + 1)
    /\ \A k \in RegistryKeys : builds[k] <= 1
    /\ (last_call.name = "add_resource" /\ last_call.outcome = "returned")
          => \A k \in visited : HasEntry(k) /\ builds[k] = 1

\* a call registering the self-referential schema for "create" has returned
\* after the recursion visited and built its "get" variant
C1_Witness ==
    /\ last_call.name = "add_resource"
    /\ last_call.outcome = "returned"
    /\ last_call.schema = "SelfRelationshipAttributesSchema"
    /\ visited = {<<"self_relationship", "create">>, <<"self_relationship", "get">>}
    /\ \A k \in visited : HasEntry(k) /\ builds[k] = 1

\* C2: once an entry exists for (resource_type, operation_type), no step
\* changes its attrs schema, data schema, field schemas, relationships info
\* or validator buckets.
C2_EntryNeverRewritten ==
    [][\A k \in RegistryKeys : HasEntry(k) => data_ops'[k[1]][k[2]] = data_ops[k[1]][k[2]]]_vars

\* add_resource was called for a key that already had an entry built from a
\* different source schema
C2_Witness ==
    /\ last_call.name = "add_resource"
    /\ last_call.existed
    /\ HasEntry(last_call.key)
    /\ data_ops[last_call.key[1]][last_call.key[2]].attrs_schema[2] # last_call.schema

\* the relationship targets named by the entry of a key
TargetsOf(k) ==
    {rel[2].resource_type : rel \in data_ops[k[1]][k[2]].relationships_info}

\* C11: after any sequence of add_resource calls that all returned, every
\* relationship of every entry has a "get" entry for its target resource
\* type.
C11_TargetsHaveReadEntry ==
    (stack = << >> /\ failures = 0) =>
        \A k \in RegistryKeys :
            HasEntry(k) => \A target \in TargetsOf(k) : HasEntry(<<target, "get">>)

\* user was registered for "create" only; the entries of its targets were
\* built by the calls of lines 109-119
C11_Witness ==
    /\ stack = << >>
    /\ failures = 0
    /\ last_call.name = "add_resource"
    /\ last_call.key = <<"user", "create">>
    /\ last_call.schema = "UserBaseSchema"
    /\ HasEntry(<<"user", "create">>)
    /\ TargetsOf(<<"user", "create">>) = {"user_bio", "computer"}
    /\ data_ops["user_bio"]["get"].data_schema[3] = "hidden_generation"
    /\ data_ops["computer"]["get"].data_schema[3] = "hidden_generation"

\* C12 as claimed: once a model is registered for a resource type, no later
\* step (add_model, or the discovery of relationship targets inside
\* add_resource) changes what get_model returns for that type.
C12_ModelImmutable ==
    [][\A rt \in ResourceTypes :
          get_model(models_data, rt).ok
              => get_model(models_data', rt) = get_model(models_data, rt)]_vars

IsLookup == last_call.name \in {"get_model", "get_data_schema", "get_attrs_schema",
                                "get_model_validators", "get_field_schema",
                                "get_relationship"}

\* the key a lookup asked for is absent from the registry it reads
KeyAbsent ==
    LET rt == last_call.key[1]
        op == last_call.key[2]
    IN  IF last_call.name = "get_model" THEN models_data[rt] = None
        ELSE \/ rt \notin data_keys
             \/ ~HasEntry(<<rt, op>>)
             \/ /\ last_call.name = "get_field_schema"
                /\ last_call.field \notin DeclaredAttributes(data_ops[rt][op].attrs_schema[2])
             \/ /\ last_call.name = "get_relationship"
                /\ RelationshipsNamed(data_ops[rt][op], last_call.field) = {}

\* C13 as claimed: every lookup of an absent key raises InternalServerError.
C13_AbsentKeyRaisesInternalError ==
    (IsLookup /\ KeyAbsent) =>
        /\ last_call.outcome = "raised"
        /\ last_call.error = "InternalServerError"

BothReturned ==
    /\ threads # NoThreads
    /\ \A t \in Builders : threads[t].status = "returned"

\* the key both builders were called for
RacedKey == <<threads[1].call.resource_type, threads[1].call.operation_type>>

Built == response.status = "ok"

Positions(seq) == 1..Len(seq)

\* the resource objects of the document: those of data and those of included
ResourceObjects ==
    {response.data[i] : i \in Positions(response.data)}
        \cup {response.included[i] : i \in Positions(response.included)}

\* the sparse fieldset requested for a resource type, as a set of names
Selector(resource_type) ==
    IF resource_type \in DOMAIN request.fields
        THEN {request.fields[resource_type][i] : i \in Positions(request.fields[resource_type])}
        ELSE {}

\* the attribute keys a resource object of the type is to have
SelectedAttributes(resource_type) ==
    IF Selector(resource_type) = {} THEN DeclaredAttributes(ReadSchema(resource_type))
    ELSE IF "" \in Selector(resource_type) THEN {}
    ELSE Selector(resource_type)

\* how often _prepare_item_data was called for a row, by the given call sites
Serializations(db_item, origins) ==
    Cardinality({h \in Positions(response.heap) :
                    /\ response.heap[h].db_item = db_item
                    /\ response.heap[h].origin \in origins})

NoDuplicateIncluded ==
    \A i, j \in Positions(response.included) :
        (/\ response.included[i].type = response.included[j].type
         /\ response.included[i].id = response.included[j].id) => i = j

IncludedRows == {response.included[i].db_item : i \in Positions(response.included)}

C4_IncludedRespectFieldset ==
    Built =>
        \A i \in Positions(response.included) :
            Selector(response.included[i].type) # {}
                => DOMAIN response.included[i].attributes
                        = SelectedAttributes(response.included[i].type)

\* C5 as claimed: with the empty-string selector for its type a resource
\* object, root or included, has id, type and an empty attributes dict;
\* without a fields parameter it has all declared attributes.
C5_EmptySelectorEmptyAttributes ==
    Built =>
        \A item \in ResourceObjects :
            /\ "" \in Selector(item.type)
                  => /\ item.attributes = EmptyDict
                     /\ item.id # << >>
                     /\ item.type = EntityType(item.db_item)
            /\ request.fields = EmptyDict
                  => DOMAIN item.attributes = DeclaredAttributes(ReadSchema(item.type))

\* C6: with a non-empty selector of declared attribute names for the root
\* type, the attributes of every resource object of data have exactly the
\* selected keys.
C6_RootHasExactlySelected ==
    Built =>
        \A i \in Positions(response.data) :
            (/\ Selector(request.resource_type) # {}
             /\ "" \notin Selector(request.resource_type))
                => DOMAIN response.data[i].attributes = Selector(request.resource_type)

\* a list of two users serialized with fields[user]=name
C6_Witness ==
    /\ Built
    /\ request.resource_type = "user"
    /\ Selector("user") = {"name"}
    /\ Len(response.data) = 2
    /\ \A i \in Positions(response.data) : DOMAIN response.data[i].attributes = {"name"}

\* the rows a traversal step finds behind a relationship of its parent
RelatedRows(db_item, target_relationship) ==
    LET info == get_relationship(EntityType(db_item), target_relationship)
    IN  IF info = NoInfo THEN {}
        ELSE IF info.many
            THEN LET related == RelatedMany(request.db, db_item, target_relationship)
                 IN  {related[i] : i \in Positions(related)}
        ELSE {RelatedOne(request.db, db_item, target_relationship)} \ {None}

\* the traversal steps of the build: <<recursion level, parent dict, relationship>>
Traversals == {response.events[k] : k \in Positions(response.events)}

ParentRow(ev) == response.heap[ev[2]].db_item

IsNullToOne(ev) ==
    /\ ~get_relationship(EntityType(ParentRow(ev)), ev[3]).many
    /\ RelatedRows(ParentRow(ev), ev[3]) = {}

\* C7: when a to-one relationship r of a parent has no related row, the
\* parent's relationships[r] is {"data": null}; nothing enters included on
\* behalf of that parent (every entry of included is a row some traversed
\* parent really has behind the traversed relationship), and the deeper
\* segments are expanded only below rows that were found.
C7_NullToOne ==
    Built =>
        /\ \A ev \in Traversals :
              IsNullToOne(ev) =>
                  response.heap[ev[2]].relationships[ev[3]] = [kind |-> "null", links |-> << >>]
        /\ \A h \in Positions(response.heap) :
              response.heap[h].origin # "root" =>
                  \E ev \in Traversals :
                      response.heap[h].db_item \in RelatedRows(ParentRow(ev), ev[3])
        /\ \A ev \in Traversals :
              ev[1] > 1 =>
                  \E up \in Traversals :
                      /\ up[1] = ev[1] - 1
                      /\ ParentRow(ev) \in RelatedRows(ParentRow(up), up[3])

\* user u1 has no bio and bio.user is included: a null linkage, an empty
\* included and no step below the first level
C7_Witness ==
    /\ Built
    /\ request.items = <<"u1">>
    /\ request.db.bio_user["b1"] = None
    /\ request.include = <<Dotted(<<"bio", "user">>)>>
    /\ response.has_included
    /\ response.data[1].relationships[Chars("bio")].kind = "null"
    /\ response.included = << >>
    /\ response.events = <<<<1, 1, Chars("bio")>>>>

\* C8 as claimed: every resource linkage in a relationships dict of the
\* document has an entry in included with the same type and id, also for a
\* resource type whose id field is not "id".
C8_LinkageHasIncludedEntry ==
    (Built /\ response.has_included) =>
        \A item \in ResourceObjects :
            \A r \in DOMAIN item.relationships :
                \A l \in Positions(item.relationships[r].links) :
                    \E i \in Positions(response.included) :
                        /\ response.included[i].type = item.relationships[r].links[l].type
                        /\ response.included[i].id = item.relationships[r].links[l].id

\* q begins with p, as strings
IsStringPrefix(p, q) == Len(p) <= Len(q) /\ SubSeq(q, 1, Len(p)) = p

RequestedPaths == {request.include[i] : i \in Positions(request.include)}

\* the requested paths that are not the beginning of another requested path
RemainingPaths ==
    {p \in RequestedPaths : ~\E q \in RequestedPaths : q # p /\ IsStringPrefix(p, q)}

TimesTraversed(depth, ref, target_relationship) ==
    Cardinality({k \in Positions(response.events) :
                    response.events[k] = <<depth, ref, target_relationship>>})

FirstSegments == {Chars(r) : r \in RelationshipNames(request.resource_type)}

C10_IncludedSorted ==
    Built =>
        \A i, j \in Positions(response.included) :
            i < j => KeyLess(<<response.included[i].type, response.included[i].id>>,
                             <<response.included[j].type, response.included[j].id>>)

\* a traversal step whose relationship name the parent's resource type does
\* not declare
Undeclared(ev) == get_relationship(response.heap[ev[2]].type, ev[3]) = NoInfo

\* C14 as claimed: when a segment of an include path is applied to a
\* resource type that declares no relationship of that name, the build
\* fails with InvalidIncludeError and produces no document.
C14_UndeclaredIncludeRejected ==
    (response # NoResponse /\ \E ev \in Traversals : Undeclared(ev)) =>
        /\ response.status = "InvalidIncludeError"
        /\ response.data = << >>

ExceedsDepth(path) == Len(SplitDots(path, << >>)) > MAX_INCLUDE_DEPTH

\* C15: a request with an include path of more than MAX_INCLUDE_DEPTH
\* segments fails with InvalidIncludeError naming such a path; no document
\* is produced and no relationship is traversed.
C15_DepthEnforced ==
    (response # NoResponse /\ \E p \in RequestedPaths : ExceedsDepth(p)) =>
        /\ response.status = "InvalidIncludeError"
        /\ response.detail \in {p \in RequestedPaths : ExceedsDepth(p)}
        /\ response.data = << >>
        /\ response.events = << >>

\* bio.user.bio.user.bio.user is requested next to bio
C15_Witness ==
    /\ response # NoResponse
    /\ request.resource_type = "user"
    /\ Len(request.include) = 2
    /\ \E p \in RequestedPaths : ExceedsDepth(p)
    /\ response.status = "InvalidIncludeError"
    /\ response.detail = Dotted(Alternate("bio", "user", MAX_INCLUDE_DEPTH + 1))
    /\ response.events = << >>

\* the validators of a mode among those declared, by name
DeclaredOfMode(declared, modes) ==
    LET picked == {i \in DOMAIN declared : declared[i][2] \in modes}
    IN  [n \in 1..Cardinality(picked) |->
            declared[CHOOSE i \in picked :
                        Cardinality({j \in picked : j < i}) = n - 1][1]]

\* the hooks of a field in the claimed order
ClaimedHooks(resource_type, field_name) ==
    DeclaredOfMode(DeclaredValidators(ReadSchema(resource_type)), {"before"})
        \o DeclaredOfMode(DeclaredFieldValidators(ReadSchema(resource_type), field_name),
                          {"before"})
        \o <<"field_schema">>
        \o DeclaredOfMode(DeclaredFieldValidators(ReadSchema(resource_type), field_name),
                          {"after"})
        \o DeclaredOfMode(DeclaredValidators(ReadSchema(resource_type)), {"after"})

\* the dicts that were serialized with the sparse fieldset of their type
SerializedSparse ==
    {h \in Positions(response.heap) :
        /\ response.heap[h].origin \in {"root", "to_many"}
        /\ Selector(response.heap[h].type) # {}
        /\ "" \notin Selector(response.heap[h].type)}

\* C17: for an entity serialized under a non-empty sparse fieldset, the
\* value of every requested field has gone through the model validators of
\* mode "before", then the field schema (the field's validators of mode
\* "before", the coercion, the field's validators of mode "after"), then
\* the model validators of mode "after", in this order, when it is written
\* to attributes.
C17_HookOrder ==
    Built =>
        \A h \in SerializedSparse :
            \A f \in DOMAIN response.heap[h].attributes :
                /\ response.heap[h].attributes[f].field = f
                /\ response.heap[h].attributes[f].hooks
                      = ClaimedHooks(response.heap[h].type, f)

\* the name of a user requested with fields[user]=name
C17_Witness ==
    /\ Built
    /\ request.resource_type = "user"
    /\ Selector("user") = {"name"}
    /\ response.data[1].attributes["name"].hooks
          = <<"pre_model_validator", "pre_field_validator", "field_schema",
              "post_field_validator", "post_model_validator">>

(***************************************************************************)
(* Filtered and sorted lists: the filter compiler and the query executor,  *)
(* over the alphabet application of tests/fixtures/app.py and the user     *)
(* resources the filter tests build                                        *)
(***************************************************************************)
MaxFilters == 2      \* filter leaves in one list request

FilterResourceTypes == {"alpha", "user", "user_with_nullable_email",
                        "user_with_custom_lower_filter"}

\* the model a resource type is registered with
FilterModel(resource_type) ==
    IF resource_type = "alpha" THEN "Alpha" ELSE "User"

\* the relationships the alphabet schemas declare: <<target model, many>>
NoRelationship == <<None, FALSE>>
FilterRelationship(model, name) ==
    CASE model = "Alpha" /\ name = "beta" -> <<"Beta", FALSE>>
      [] model = "Alpha" /\ name = "gamma" -> <<"Gamma", FALSE>>
      [] model = "Beta" /\ name = "gammas" -> <<"Gamma", TRUE>>
      [] model = "Gamma" /\ name = "delta" -> <<"Delta", FALSE>>
      [] OTHER -> NoRelationship

\* whether the schema of a resource type lets a field be None
CanBeNone(resource_type, field_name) ==
    resource_type = "user" /\ field_name = "email"

\* sql_filter_lower_equals = LowerEqualsFilterSQL(op="lower_equals")
sql_filter_lower_equals == [op |-> "lower_equals"]

\* the custom filters in the annotation of a field
CustomFilters(resource_type, field_name) ==
    IF resource_type = "user_with_custom_lower_filter" /\ field_name = "email"
        THEN {sql_filter_lower_equals}
        ELSE {}

\* the operators a model column has
StandardOperators == {"eq", "ne", "in", "is_", "isnot"}

\* the values of columns and of filter leaves: NULL, a string, a list
Null == [kind |-> "null", items |-> << >>]
Str(chars) == [kind |-> "str", items |-> <<chars>>]
List(strings) == [kind |-> "list", items |-> strings]

\* func.lower
LowerChar(c) ==
    CASE c = "A" -> "a"
      [] c = "N" -> "n"
      [] OTHER -> c

Lower(s) == [i \in DOMAIN s |-> LowerChar(s[i])]

\* the rows of the database of a filtered list
Alphas == <<"a1", "a2">>
Betas == {"b1"}
Gammas == {"g1", "g2"}
Deltas == {"d1", "d2"}
FilterUsers == <<"u1", "u2">>
DeltaName(d) == IF d = "d1" THEN <<"d", "1">> ELSE <<"d", "2">>
DeltaNames == {DeltaName(d) : d \in Deltas}
Emails == {<<"a", "n">>, <<"A", "N">>, <<"b", "o">>}

AlphabetDatabases ==
    [alpha_beta : {[a \in {"a1", "a2"} |-> "b1"]},
     alpha_gamma : [{"a1", "a2"} -> Gammas],
     beta_gammas : [Betas -> SUBSET Gammas],
     gamma_delta : [Gammas -> Deltas],
     email : {[u \in {"u1", "u2"} |-> Null]}]

UserDatabases ==
    [alpha_beta : {[a \in {"a1", "a2"} |-> "b1"]},
     alpha_gamma : {[a \in {"a1", "a2"} |-> "g1"]},
     beta_gammas : {[b \in Betas |-> {}]},
     gamma_delta : {[g \in Gammas |-> "d1"]},
     email : [{"u1", "u2"} -> {Str(e) : e \in Emails} \cup {Null}]]

\* the rows of a model, in the order of their ids
RootRows(model) == IF model = "Alpha" THEN Alphas ELSE FilterUsers

\* the rows a relationship of a row leads to
Related(db, model, row, name) ==
    CASE model = "Alpha" /\ name = "beta" -> {db.alpha_beta[row]}
      [] model = "Alpha" /\ name = "gamma" -> {db.alpha_gamma[row]}
      [] model = "Beta" /\ name = "gammas" -> db.beta_gammas[row]
      [] model = "Gamma" /\ name = "delta" -> {db.gamma_delta[row]}
      [] OTHER -> {}

\* the value of a column of a row
Column(db, model, row, field_name) ==
    CASE model = "Delta" /\ field_name = "name" -> Str(DeltaName(row))
      [] model = "User" /\ field_name = "email" -> db.email[row]
      [] OTHER -> Null

\* ------------------------------------------------------------------------
\* the joins of a query: one record per emitted join, in emission order
\* ------------------------------------------------------------------------
JoinOf(joins, path) == CHOOSE i \in 1..Len(joins) : joins[i].path = path

HasJoin_never(joins, path) == FALSE
HasJoin(joins, path) == \E i \in 1..Len(joins) : joins[i].path = path

\* the model a relationship path ends at
RECURSIVE PathModel(_, _)
PathModel(model, path) ==
    IF path = << >> THEN model
    ELSE PathModel(FilterRelationship(model, Head(path))[1], Tail(path))

\* the alias of the next join of a model: the model and a number that no
\* earlier alias of this model has
NewAlias(joins, model) ==
    <<model, Cardinality({i \in 1..Len(joins) : joins[i].model = model}) + 1>>

\* the joins after every prefix of a relationship path, from the one of
\* length i on, was looked up in the joins and joined when absent
RECURSIVE RegisterJoins(_, _, _, _)
RegisterJoins(joins, root_model, path, i) ==
    IF i > Len(path) THEN joins
    ELSE LET prefix == SubSeq(path, 1, i)
             model == PathModel(root_model, prefix)
         IN  IF HasJoin(joins, prefix)
                 THEN RegisterJoins(joins, root_model, path, i + 1)
                 ELSE RegisterJoins(
                        Append(joins, [path |-> prefix,
                                       alias |-> NewAlias(joins, model),
                                       model |-> model,
                                       parent |-> SubSeq(path, 1, i - 1),
                                       name |-> path[i]]),
                        root_model, path, i + 1)

\* the relationship path and the field of a dotted name
RelationshipPath(name) == SubSeq(name, 1, Len(name) - 1)
FieldOf(name) == name[Len(name)]

\* the alias a column of a term is read from; the root has none
RootAlias == <<"root", 0>>
TermAlias(joins, name) ==
    IF RelationshipPath(name) = << >> THEN RootAlias
    ELSE joins[JoinOf(joins, RelationshipPath(name))].alias

\* ------------------------------------------------------------------------
\* one filter leaf
\* ------------------------------------------------------------------------
InvalidFilters(detail) == [ok |-> FALSE, detail |-> detail, expression |-> None]
Expression(expression) == [ok |-> TRUE, detail |-> None, expression |-> expression]

NoOperatorDetail(field_name, operator) == <<"Field", field_name, "has no operator", operator>>
CantBeNullDetail(field_name) == <<"The field", field_name, "can't be null">>

\* the custom filter of a field for an operator, or None
CustomFilterFor(resource_type, field_name, operator) ==
    IF \E custom \in CustomFilters(resource_type, field_name) : custom.op = operator
        THEN CHOOSE custom \in CustomFilters(resource_type, field_name) : custom.op = operator
        ELSE [op |-> None]

\* the standard operators only: a custom filter is never looked up
ResolveOperator_standard(resource_type, field_name, operator) ==
    IF operator \in StandardOperators THEN "standard" ELSE None
\* the kind of expression an operator name resolves to on a field
ResolveOperator(resource_type, field_name, operator) ==
    IF CustomFilterFor(resource_type, field_name, operator).op # None THEN "custom"
    ELSE IF operator \in StandardOperators THEN "standard"
    ELSE None

\* a None value is passed to the column whatever the schema says
NullAllowed_always(resource_type, field_name) == TRUE
\* whether a None value may be compared with a field
NullAllowed(resource_type, field_name) == CanBeNone(resource_type, field_name)

\* the expression of a leaf on the column of an alias, or the error
BuildFilterExpression(resource_type, alias, leaf) ==
    LET field_name == FieldOf(leaf.name)
        kind == ResolveOperator(resource_type, field_name, leaf.op)
    IN  IF kind = None
            THEN InvalidFilters(NoOperatorDetail(field_name, leaf.op))
        ELSE IF kind = "custom"
            THEN Expression([alias |-> alias, field |-> field_name,
                             op |-> leaf.op, val |-> leaf.val])
        ELSE IF leaf.val = Null /\ ~NullAllowed(resource_type, field_name)
            THEN InvalidFilters(CantBeNullDetail(field_name))
        ELSE Expression([alias |-> alias, field |-> field_name,
                         op |-> leaf.op, val |-> leaf.val])

\* LowerEqualsFilterSQL.get_expression, on a column value
LowerEquals(value, val) ==
    /\ value.kind = "str"
    /\ val.kind = "str"
    /\ Lower(value.items[1]) = Lower(val.items[1])

\* the truth of an expression on a column value; a comparison with a NULL
\* column is not true
Holds(expression, value) ==
    CASE expression.op = "lower_equals" -> LowerEquals(value, expression.val)
      [] expression.op = "eq" ->
            IF expression.val = Null THEN value = Null
            ELSE value # Null /\ value = expression.val
      [] expression.op = "ne" ->
            IF expression.val = Null THEN value # Null
            ELSE value # Null /\ value # expression.val
      [] expression.op = "in" ->
            /\ value # Null
            /\ \E i \in 1..Len(expression.val.items) : Str(expression.val.items[i]) = value
      [] expression.op = "is_" -> value = expression.val
      [] expression.op = "isnot" -> value # expression.val

\* ------------------------------------------------------------------------
\* the whole filter and the sort keys
\* ------------------------------------------------------------------------
\* the leaves from position i on, compiled over the joins so far
RECURSIVE CompileFilters(_, _, _, _, _)
CompileFilters(resource_type, filters, i, joins, expressions) ==
    IF i > Len(filters)
        THEN [ok |-> TRUE, detail |-> None, joins |-> joins, expressions |-> expressions]
    ELSE LET leaf == filters[i]
             joined == RegisterJoins(joins, FilterModel(resource_type),
                                     RelationshipPath(leaf.name), 1)
             built == BuildFilterExpression(resource_type,
                                            TermAlias(joined, leaf.name), leaf)
         IN  IF ~built.ok
                 THEN [ok |-> FALSE, detail |-> built.detail, joins |-> joined,
                       expressions |-> expressions]
                 ELSE CompileFilters(resource_type, filters, i + 1, joined,
                                     Append(expressions, built.expression))

\* the sort keys from position i on, over the joins of the filters
RECURSIVE CompileSorts(_, _, _, _, _)
CompileSorts(resource_type, sorts, i, joins, orders) ==
    IF i > Len(sorts) THEN [joins |-> joins, orders |-> orders]
    ELSE LET joined == RegisterJoins(joins, FilterModel(resource_type),
                                     RelationshipPath(sorts[i].name), 1)
         IN  CompileSorts(resource_type, sorts, i + 1, joined,
                          Append(orders, [alias |-> TermAlias(joined, sorts[i].name),
                                          field |-> FieldOf(sorts[i].name),
                                          desc |-> sorts[i].desc]))

\* ------------------------------------------------------------------------
\* the query executor
\* ------------------------------------------------------------------------
\* the rows of the root joined with the first n joins: the root row and one
\* related row per join
RECURSIVE JoinedRows(_, _, _, _)
JoinedRows(db, root_model, joins, n) ==
    IF n = 0 THEN {[root |-> RootRows(root_model)[i], at |-> << >>] :
                        i \in 1..Len(RootRows(root_model))}
    ELSE LET join == joins[n]
             before == JoinedRows(db, root_model, joins, n - 1)
             ParentRowOf(row) ==
                IF join.parent = << >> THEN row.root
                ELSE row.at[JoinOf(joins, join.parent)]
             parent_model == PathModel(root_model, join.parent)
         IN  UNION {{[root |-> row.root, at |-> Append(row.at, related)] :
                        related \in Related(db, parent_model, ParentRowOf(row), join.name)} :
                    row \in before}

\* the first join with an alias
AliasPosition(joins, alias) == CHOOSE i \in 1..Len(joins) : joins[i].alias = alias

\* the value an expression or a sort key reads in a joined row
ValueAt(db, root_model, joins, row, alias, field_name) ==
    IF alias = RootAlias THEN Column(db, root_model, row.root, field_name)
    ELSE Column(db, joins[AliasPosition(joins, alias)].model,
                row.at[AliasPosition(joins, alias)], field_name)

\* WHERE: the joined rows on which every expression holds
Where(db, root_model, joins, expressions) ==
    {row \in JoinedRows(db, root_model, joins, Len(joins)) :
        \A i \in 1..Len(expressions) :
            Holds(expressions[i],
                  ValueAt(db, root_model, joins, row, expressions[i].alias,
                          expressions[i].field))}

\* position of a root row in the order of the ids
RootIndex(root_model, root) ==
    CHOOSE i \in 1..Len(RootRows(root_model)) : RootRows(root_model)[i] = root

\* ORDER BY: whether a joined row goes before another
RECURSIVE RowBefore(_, _, _, _, _, _, _)
RowBefore(db, root_model, joins, orders, i, a, b) ==
    IF i > Len(orders)
        THEN RootIndex(root_model, a.root) < RootIndex(root_model, b.root)
    ELSE LET va == ValueAt(db, root_model, joins, a, orders[i].alias, orders[i].field)
             vb == ValueAt(db, root_model, joins, b, orders[i].alias, orders[i].field)
         IN  IF va = vb THEN RowBefore(db, root_model, joins, orders, i + 1, a, b)
             ELSE IF orders[i].desc THEN StrLess(vb.items[1], va.items[1])
             ELSE StrLess(va.items[1], vb.items[1])

\* the root rows of a set of joined rows in their order, each root at its
\* first joined row
RECURSIVE DistinctRoots(_, _, _, _, _)
DistinctRoots(db, root_model, joins, orders, rows) ==
    IF rows = {} THEN << >>
    ELSE LET first == CHOOSE a \in rows :
                        \A b \in rows \ {a} :
                            \/ RowBefore(db, root_model, joins, orders, 1, a, b)
                            \/ ~RowBefore(db, root_model, joins, orders, 1, b, a)
                               /\ a.root = b.root
             rest == {b \in rows : b.root # first.root}
         IN  <<first.root>> \o DistinctRoots(db, root_model, joins, orders, rest)

\* the list of a resource type: the entities and their total count
GetCollection(db, resource_type, filters, sorts) ==
    LET root_model == FilterModel(resource_type)
        compiled == CompileFilters(resource_type, filters, 1, << >>, << >>)
        sorted == CompileSorts(resource_type, sorts, 1, compiled.joins, << >>)
        rows == Where(db, root_model, sorted.joins, compiled.expressions)
        entities == DistinctRoots(db, root_model, sorted.joins, sorted.orders, rows)
    IN  IF ~compiled.ok
            THEN [status |-> "InvalidFilters", status_code |-> 400,
                  detail |-> compiled.detail, data |-> << >>, count |-> 0,
                  joins |-> compiled.joins, rows |-> {}]
            ELSE [status |-> "ok", status_code |-> 200, detail |-> None,
                  data |-> entities, count |-> Len(entities),
                  joins |-> sorted.joins, rows |-> rows]

\* ------------------------------------------------------------------------
\* the list requests
\* ------------------------------------------------------------------------
SeqsUpTo(S, n) == UNION {[1..k -> S] : k \in 0..n}

AlphaNames == {<<"beta", "gammas", "delta", "name">>, <<"gamma", "delta", "name">>}

AlphaLeaves ==
    [name : AlphaNames, op : {"eq"}, val : {Str(n) : n \in DeltaNames}]
        \cup [name : {<<"beta", "gammas", "delta", "name">>}, op : {"in"},
              val : {List(<<DeltaName("d1"), DeltaName("d2")>>)}]

AlphaSorts == {<< >>} \cup {<<key>> : key \in [name : AlphaNames, desc : BOOLEAN]}

UserOperators == StandardOperators \cup {"lower_equals", "custom_broken_filter"}

UserLeaves ==
    [name : {<<"email">>}, op : UserOperators \ {"in"}, val : {Null, Str(<<"a", "n">>)}]
        \cup [name : {<<"email">>}, op : {"in"}, val : {List(<<(<<"a", "n">>), (<<"b", "o">>)>>)}]

ListRequests ==
    [resource_type : {"alpha"}, filters : SeqsUpTo(AlphaLeaves, MaxFilters),
     sorts : AlphaSorts, db : AlphabetDatabases]
        \cup [resource_type : FilterResourceTypes \ {"alpha"},
              filters : SeqsUpTo(UserLeaves, 1), sorts : {<< >>}, db : UserDatabases]

\* the list handler: the collection of the data layer, its count in meta
GetList ==
    /\ response = NoResponse
    /\ response' = GetCollection(request.db, request.resource_type,
                                 request.filters, request.sorts)
    /\ UNCHANGED <<regVars, request>>

InitFilter ==
    /\ data_keys = {}
    /\ data_relationships = NoRelationships
    /\ data_ops = EmptyDict
    /\ registered_schemas = {}
    /\ models_data = EmptyDict
    /\ stack = << >>
    /\ last_call = NoCall
    /\ builds = [k \in ResourceTypes \X OperationTypes |-> 0]
    /\ visited = {}
    /\ ops_done = 0
    /\ failures = 0
    /\ threads = NoThreads
    /\ request \in ListRequests
    /\ response = NoResponse

NextFilter == GetList

SpecFilter == InitFilter /\ [][NextFilter]_vars

(***************************************************************************)
(* Properties of the filtered lists                                        *)
(***************************************************************************)
Listed == response # NoResponse

\* the relationship paths of the filter and sort terms of the request
TermPaths ==
    {RelationshipPath(request.filters[i].name) : i \in 1..Len(request.filters)}
        \cup {RelationshipPath(request.sorts[i].name) : i \in 1..Len(request.sorts)}

\* the non-empty prefixes of the relationship paths of the terms
TermPrefixes == UNION {{SubSeq(path, 1, n) : n \in 1..Len(path)} : path \in TermPaths}

\* the root rows that have a joined row on which the whole filter holds
MatchingRoots == {row.root : row \in response.rows}

\* C18: in the query of a list request, every relationship path prefix
\* of its filter and sort terms has exactly one join, however many terms go
\* through it; joins of different paths have different aliases, also when
\* they end at the same model; and a root entity is once in data and
\* counted once by meta.count, however many joined rows it matches through.
C18_OneJoinPerPath ==
    (Listed /\ response.status = "ok") =>
        /\ \A prefix \in TermPrefixes :
              Cardinality({i \in 1..Len(response.joins) :
                              response.joins[i].path = prefix}) = 1
        /\ \A i, j \in 1..Len(response.joins) :
              response.joins[i].path # response.joins[j].path
                  => response.joins[i].alias # response.joins[j].alias
        /\ \A i, j \in 1..Len(response.data) :
              i # j => response.data[i] # response.data[j]
        /\ {response.data[i] : i \in 1..Len(response.data)} = MatchingRoots
        /\ response.count = Cardinality(MatchingRoots)

\* a filter and a sort through beta.gammas.delta, a filter through
\* gamma.delta; a1 matches through both gammas of its beta, a2 does not match
C18_Witness ==
    /\ Listed
    /\ request.resource_type = "alpha"
    /\ Len(request.filters) = 2
    /\ request.filters[1].name = <<"beta", "gammas", "delta", "name">>
    /\ request.filters[1].op = "in"
    /\ request.filters[2] = [name |-> <<"gamma", "delta", "name">>, op |-> "eq",
                             val |-> Str(DeltaName("d2"))]
    /\ Len(request.sorts) = 1
    /\ request.sorts[1].name = <<"beta", "gammas", "delta", "name">>
    /\ Len(response.joins) = 5
    /\ {response.joins[i].alias : i \in 1..Len(response.joins)}
          = {<<"Beta", 1>>, <<"Gamma", 1>>, <<"Delta", 1>>, <<"Gamma", 2>>, <<"Delta", 2>>}
    /\ Cardinality({row \in response.rows : row.root = "a1"}) = 2
    /\ response.data = <<"a1">>
    /\ response.count = 1

\* a single leaf on email with a None value
IsNullLeaf(operators) ==
    /\ request.resource_type # "alpha"
    /\ Len(request.filters) = 1
    /\ request.filters[1].name = <<"email">>
    /\ request.filters[1].op \in operators
    /\ request.filters[1].val = Null

\* the users whose email is (not) NULL, in the order of the list
UsersByNull(db, is_null) ==
    LET Matches(u) == (db.email[u] = Null) = is_null
    IN  SelectSeq(FilterUsers, Matches)

\* C19: a filter with operator is_ and value null on a field declared
\* nullable returns exactly the entities whose field is null, with isnot
\* exactly those whose field is not null; on a field declared non-nullable
\* it is rejected with a 400 invalid-filter error and no data.
C19_NullFilter ==
    (Listed /\ IsNullLeaf({"is_", "isnot"})) =>
        IF CanBeNone(request.resource_type, "email")
            THEN /\ response.status = "ok"
                 /\ response.data = UsersByNull(request.db, request.filters[1].op = "is_")
            ELSE /\ response.status = "InvalidFilters"
                 /\ response.status_code = 400
                 /\ response.detail = CantBeNullDetail("email")
                 /\ response.data = << >>

\* is_ null on the nullable email of "user": only u2 has none
C19_Witness ==
    /\ Listed
    /\ IsNullLeaf({"is_"})
    /\ request.resource_type = "user"
    /\ request.db.email["u1"] # Null
    /\ request.db.email["u2"] = Null
    /\ response.data = <<"u2">>

\* the operators the annotation of a field declares
DeclaredOperators(resource_type, field_name) ==
    {custom.op : custom \in CustomFilters(resource_type, field_name)}

\* a single leaf on email
IsEmailLeaf ==
    /\ request.resource_type # "alpha"
    /\ Len(request.filters) = 1
    /\ request.filters[1].name = <<"email">>

\* the users whose email equals a string when both are lowered
UsersByLower(db, val) ==
    LET Matches(u) == db.email[u] # Null /\ Lower(db.email[u].items[1]) = Lower(val.items[1])
    IN  SelectSeq(FilterUsers, Matches)

\* C20: a filter leaf whose operator is neither a standard operator nor
\* a custom operator declared on the annotation of its field fails with a
\* 400 invalid-filter error whose detail names the field and the operator,
\* so a custom operator fails on a field that does not declare it; on a
\* field that declares it, it filters.
C20_UnknownOperator ==
    (Listed /\ IsEmailLeaf) =>
        LET leaf == request.filters[1]
            declared == DeclaredOperators(request.resource_type, "email")
        IN  /\ leaf.op \notin StandardOperators \cup declared =>
                  /\ response.status = "InvalidFilters"
                  /\ response.status_code = 400
                  /\ \E i, j \in 1..Len(response.detail) :
                        /\ response.detail[i] = "email"
                        /\ response.detail[j] = leaf.op
                  /\ response.data = << >>
            /\ (leaf.op \in declared /\ leaf.val.kind = "str") =>
                  /\ response.status = "ok"
                  /\ response.data = UsersByLower(request.db, leaf.val)

\* lower_equals on the email of "user", which does not declare it
C20_Witness ==
    /\ Listed
    /\ IsEmailLeaf
    /\ request.resource_type = "user"
    /\ request.filters[1].op = "lower_equals"
    /\ request.filters[1].val = Str(<<"a", "n">>)
    /\ request.db.email["u1"] = Str(<<"A", "N">>)
    /\ response.status = "InvalidFilters"
    /\ response.detail = <<"Field", "email", "has no operator", "lower_equals">>

(***************************************************************************)
(* Further properties of the response documents                            *)
(***************************************************************************)
\* the resource objects of a document
ObjectsOf(document) ==
    {document.data[i] : i \in Positions(document.data)}
        \cup {document.included[i] : i \in Positions(document.included)}

\* the document of the same request without any sparse fieldset
WithoutFields == BuildResponse([request EXCEPT !.fields = EmptyDict])

\* C21: a resource object of a type T without a selector is serialized
\* as if no selector were given at all, whatever the selectors of other
\* types: it has all attributes of the read attributes schema of T; and
\* without an include parameter the document has no included member and no
\* resource object has relationships.
C21_SelectorFrame ==
    Built =>
        /\ \A item \in ResourceObjects :
              Selector(item.type) = {} =>
                  /\ item.attributes = AllAttributes(item.db_item, item.type)
                  /\ DOMAIN item.attributes = DeclaredAttributes(ReadSchema(item.type))
                  /\ item \in ObjectsOf(WithoutFields)
        /\ request.include = << >> =>
              /\ ~response.has_included
              /\ response.included = << >>
              /\ \A item \in ResourceObjects :
                    /\ ~item.has_relationships
                    /\ item.relationships = EmptyDict

\* a list of users requested with fields[user_bio] only and no include
C21_Witness ==
    /\ Built
    /\ request.resource_type = "user"
    /\ request.include = << >>
    /\ DOMAIN request.fields = {"user_bio"}
    /\ Len(response.data) = 2
    /\ DOMAIN response.data[1].attributes = DeclaredAttributes("UserBaseSchema")

(***************************************************************************)
(* Further properties of the registries                                    *)
(***************************************************************************)
\* the elements of a sequence
Elements(seq) == {seq[i] : i \in 1..Len(seq)}

\* C22: in every entry add_resource wrote, a validator it was given is in
\* the before bucket if and only if its declared mode is "before" and in
\* the after bucket otherwise; the buckets are disjoint and together hold
\* every validator given, each once and under its name.
C22_ValidatorsPartitioned ==
    \A k \in RegistryKeys :
        HasEntry(k) =>
            LET entry == data_ops[k[1]][k[2]]
                given == DeclaredValidators(entry.attrs_schema[2])
                before == entry.model_validators[1]
                after == entry.model_validators[2]
            IN  /\ \A v \in Elements(given) :
                      /\ v \in Elements(before) <=> v[2] = "before"
                      /\ v \in Elements(after) <=> v[2] # "before"
                /\ Elements(before) \cap Elements(after) = {}
                /\ Elements(before) \cup Elements(after) = Elements(given)
                /\ Len(before) + Len(after) = Len(given)

\* UserSchema, with a validator of mode "before" and one of mode "wrap",
\* was registered for "update"
C22_Witness ==
    /\ HasEntry(<<"user", "update">>)
    /\ data_ops["user"]["update"].attrs_schema[2] = "UserSchema"
    /\ data_ops["user"]["update"].model_validators
          = << << <<"pre_field_validator", "before">> >>,
               << <<"wrap_validator", "wrap">> >> >>

\* C23: for every parent _process_includes went through and every
\* to-many relationship r it traversed for it, relationships[r].data of the
\* parent is a list with one {id, type} linkage per row of the collection,
\* in the order of the collection (empty when there is none), also when the
\* rows were in included before the traversal.
C23_ToManyLinkage ==
    Built =>
        \A ev \in Traversals :
            LET info == get_relationship(EntityType(ParentRow(ev)), ev[3])
                related == RelatedMany(request.db, ParentRow(ev), ev[3])
                data == response.heap[ev[2]].relationships[ev[3]]
            IN  info.many =>
                    /\ data.kind = "many"
                    /\ Len(data.links) = Len(related)
                    /\ \A i \in Positions(related) :
                          data.links[i] =
                              [id |-> PyStr(IdAttribute(related[i], info.id_field_name)),
                               type |-> info.resource_type]

\* both computers of a list belong to u1: u1.computers is traversed twice,
\* the second time with both computers in included
C23_Witness ==
    /\ Built
    /\ request.items = <<"c1", "c2">>
    /\ request.db.computer_user = [c1 |-> "u1", c2 |-> "u1"]
    /\ request.include = <<Dotted(<<"user", "computers">>)>>
    /\ \E ev \in Traversals :
          /\ ev[1] = 2
          /\ ParentRow(ev) = "u1"
          /\ TimesTraversed(ev[1], ev[2], ev[3]) = 2
          /\ Len(response.heap[ev[2]].relationships[ev[3]].links) = 2

(***************************************************************************)
(* ViewBase.handle_endpoint_dependencies: the kwargs of the data layer     *)
(***************************************************************************)
\* views/utils.py: the names of HTTPMethod
HTTPMethodNames == {"ALL", "GET", "POST", "PATCH", "DELETE"}

\* the methods a request can arrive with
RequestMethods == {"GET", "POST", "PATCH", "PUT", "OPTIONS"}

\* dict.update
Update(kwargs, other) ==
    [k \in DOMAIN kwargs \cup DOMAIN other |->
        IF k \in DOMAIN other THEN other[k] ELSE kwargs[k]]

\* the dicts a prepare_data_layer_kwargs handler returns
HandlerResults ==
    {EmptyDict,
     [k \in {"session"} |-> "common"],
     [k \in {"session"} |-> "own"],
     [k \in {"session", "is_admin"} |-> IF k = "session" THEN "own" ELSE "yes"]}

\* method_dependencies.get(method) finds no config
NoConfig == [present |-> FALSE, has_handler |-> FALSE, dependencies |-> FALSE,
             returns |-> EmptyDict]

\* HTTPMethodConfig(dependencies=..., prepare_data_layer_kwargs=...)
HTTPMethodConfigs ==
    {[present |-> TRUE, has_handler |-> FALSE, dependencies |-> d, returns |-> EmptyDict] :
        d \in BOOLEAN}
        \cup [present : {TRUE}, has_handler : {TRUE}, dependencies : BOOLEAN,
              returns : HandlerResults]

\* the methods whose config varies
ConfiguredMethods == {"ALL", "GET", "POST"}

MethodDependencies ==
    {[m \in HTTPMethodNames |-> IF m \in ConfiguredMethods THEN given[m] ELSE NoConfig] :
        given \in [ConfiguredMethods -> {NoConfig} \cup HTTPMethodConfigs]}

\* the handler run without a look at method_config.handler
_handle_config_always(method_name, method_config, calls) ==
    [kwargs |-> method_config.returns,
     calls |-> Append(calls, <<method_name, method_config.dependencies>>)]

\* lines 96-109: _handle_config; calls is the history of the handlers run
\* and whether each got a dto
_handle_config(method_name, method_config, calls) ==
    IF ~method_config.has_handler
        THEN [kwargs |-> EmptyDict, calls |-> calls]
        ELSE [kwargs |-> method_config.returns,
              calls |-> Append(calls, <<method_name, method_config.dependencies>>)]

\* lines 111-128
handle_endpoint_dependencies(method_dependencies, method) ==
    LET common_method_config == method_dependencies["ALL"]
        common == IF common_method_config.present
                      THEN _handle_config("ALL", common_method_config, << >>)
                      ELSE [kwargs |-> EmptyDict, calls |-> << >>]
        dl_kwargs == Update(EmptyDict, common.kwargs)
    IN  IF method \notin HTTPMethodNames
            THEN [status |-> "ok", dl_kwargs |-> dl_kwargs, calls |-> common.calls]
        ELSE IF method_dependencies[method].present
            THEN LET own == _handle_config(method, method_dependencies[method], common.calls)
                 IN  [status |-> "ok", dl_kwargs |-> Update(dl_kwargs, own.kwargs),
                      calls |-> own.calls]
        ELSE [status |-> "ok", dl_kwargs |-> dl_kwargs, calls |-> common.calls]

\* a request reaches a view: get_data_layer_for_detail / get_data_layer_for_list
HandleEndpointDependencies ==
    /\ response = NoResponse
    /\ response' = handle_endpoint_dependencies(request.method_dependencies, request.method)
    /\ UNCHANGED <<regVars, request>>

InitDeps ==
    /\ data_keys = {}
    /\ data_relationships = NoRelationships
    /\ data_ops = EmptyDict
    /\ registered_schemas = {}
    /\ models_data = EmptyDict
    /\ stack = << >>
    /\ last_call = NoCall
    /\ builds = [k \in ResourceTypes \X OperationTypes |-> 0]
    /\ visited = {}
    /\ ops_done = 0
    /\ failures = 0
    /\ threads = NoThreads
    /\ request \in [method : RequestMethods, method_dependencies : MethodDependencies]
    /\ response = NoResponse

NextDeps == HandleEndpointDependencies

SpecDeps == InitDeps /\ [][NextDeps]_vars

\* the kwargs a config contributes
Contribution(config) ==
    IF config.present /\ config.has_handler THEN config.returns ELSE EmptyDict

\* C24: the handler of HTTPMethod.ALL runs before the handler of the
\* request's own method; the result is the kwargs of the ALL handler
\* updated with those of the method handler, whose value wins on a key of
\* both; a config without a handler runs nothing and contributes nothing;
\* for a request method outside HTTPMethod only the ALL config counts.
C24_CommonThenOwn ==
    response # NoResponse =>
        LET common == request.method_dependencies["ALL"]
            own == IF request.method \in HTTPMethodNames
                       THEN request.method_dependencies[request.method]
                       ELSE NoConfig
            ran(config, name) == IF config.present /\ config.has_handler
                                     THEN <<(<<name, config.dependencies>>)>> ELSE << >>
        IN  /\ response.calls = ran(common, "ALL") \o ran(own, request.method)
            /\ DOMAIN response.dl_kwargs
                  = DOMAIN Contribution(common) \cup DOMAIN Contribution(own)
            /\ \A k \in DOMAIN response.dl_kwargs :
                  response.dl_kwargs[k] =
                      IF k \in DOMAIN Contribution(own)
                          THEN Contribution(own)[k] ELSE Contribution(common)[k]
            /\ request.method \notin HTTPMethodNames
                  => response.dl_kwargs = Contribution(common)

\* a GET with handlers for ALL and GET that both return a session
C24_Witness ==
    /\ response # NoResponse
    /\ request.method = "GET"
    /\ request.method_dependencies["ALL"].has_handler
    /\ request.method_dependencies["ALL"].returns = [k \in {"session"} |-> "common"]
    /\ request.method_dependencies["GET"].has_handler
    /\ request.method_dependencies["GET"].returns
          = [k \in {"session", "is_admin"} |-> IF k = "session" THEN "own" ELSE "yes"]
    /\ response.calls = << <<"ALL", request.method_dependencies["ALL"].dependencies>>,
                           <<"GET", request.method_dependencies["GET"].dependencies>> >>
    /\ response.dl_kwargs["session"] = "own"

(***************************************************************************)
(* ViewBase._prepare_include_params applied to include parameters over     *)
(* relationship names of which one is the beginning of another             *)
(***************************************************************************)
ParamNames == {"post", "posts", "user", "user_bio"}

\* the paths of at most n relationship names
RECURSIVE ParamPaths(_)
ParamPaths(n) ==
    IF n = 0 THEN {}
    ELSE {<<name>> : name \in ParamNames}
            \cup {<<name>> \o path : name \in {"post", "user"}, path \in ParamPaths(n - 1)}

\* the include parameters: lists of up to MaxIncludes dotted paths
IncludeParameters ==
    UNION {[1..k -> {Dotted(path) : path \in ParamPaths(MaxDepth)}] : k \in 1..MaxIncludes}

\* self._prepare_include_params() on a request with an include parameter
PrepareIncludeParams ==
    /\ response = NoResponse
    /\ response' = [status |-> "ok", params |-> _prepare_include_params(request.include)]
    /\ UNCHANGED <<regVars, request>>

InitParams ==
    /\ data_keys = {}
    /\ data_relationships = NoRelationships
    /\ data_ops = EmptyDict
    /\ registered_schemas = {}
    /\ models_data = EmptyDict
    /\ stack = << >>
    /\ last_call = NoCall
    /\ builds = [k \in ResourceTypes \X OperationTypes |-> 0]
    /\ visited = {}
    /\ ops_done = 0
    /\ failures = 0
    /\ threads = NoThreads
    /\ request \in [include : IncludeParameters]
    /\ response = NoResponse

NextParams == PrepareIncludeParams

SpecParams == InitParams /\ [][NextParams]_vars

\* a path begins with another, segment by segment
IsSegmentPrefix(p, q) == Len(p) <= Len(q) /\ SubSeq(q, 1, Len(p)) = p

\* C25 as claimed: every requested include path is a segment-wise prefix
\* of, or equal to, a path of the list _prepare_include_params returns, also
\* when one relationship name is the beginning of another as a string.
C25_NoIncludeLost ==
    response # NoResponse =>
        \A i \in Positions(request.include) :
            \E j \in Positions(response.params) :
                IsSegmentPrefix(SplitDots(request.include[i], << >>), response.params[j])

\* the segments of the requested include paths
RequestedSegments == {SplitDots(request.include[i], << >>) : i \in Positions(request.include)}

\* C26: in every build, also over rows that refer to each other in a
\* cycle, the traversals of _process_includes are finitely many and each
\* traversal at recursion level d is for the d-th segment of a requested
\* path, so the recursion is never deeper than the longest requested path
\* has segments.
C26_DepthBounded ==
    response # NoResponse =>
        \A ev \in Traversals :
            \E path \in RequestedSegments : ev[1] <= Len(path) /\ path[ev[1]] = ev[3]

\* bio.user.bio.user.bio over a user and its bio, which refer to each other:
\* five levels
C26_Witness ==
    /\ Built
    /\ request.items = <<"u1">>
    /\ request.db.bio_user["b1"] = "u1"
    /\ request.include = <<Dotted(Alternate("bio", "user", MAX_INCLUDE_DEPTH))>>
    /\ \E ev \in Traversals : ev[1] = MAX_INCLUDE_DEPTH /\ ParentRow(ev) = "u1"
    /\ \A ev \in Traversals : ev[1] <= MAX_INCLUDE_DEPTH

\* the resource type a relationship path leads to
RECURSIVE TypeAfter(_, _)
TypeAfter(resource_type, path) ==
    IF path = << >> THEN resource_type
    ELSE LET info == get_relationship(resource_type, Head(path))
         IN  IF info = NoInfo THEN None ELSE TypeAfter(info.resource_type, Tail(path))

\* the requested paths a traversal step belongs to and that go deeper
DeeperPaths(ev) ==
    {path \in RequestedSegments :
        /\ Len(path) > ev[1]
        /\ path[ev[1]] = ev[3]
        /\ TypeAfter(request.resource_type, SubSeq(path, 1, ev[1] - 1))
              = EntityType(ParentRow(ev))}

\* the entries of included made from a row
EntriesOf(row) == {i \in Positions(response.included) : response.included[i].db_item = row}

LookupNames == {"get_data_schema", "get_attrs_schema", "get_field_schema",
                "get_model_validators", "get_relationship", "get_relationship_schema"}

\* C28: no lookup, whether it finds something or not, changes the resource
\* types the Schema Registry knows, their variants or their relationship
\* entries.
C28_LookupsPure ==
    [][last_call'.name \in LookupNames =>
          /\ data_keys' = data_keys
          /\ data_ops' = data_ops
          /\ data_relationships' = data_relationships]_vars

\* C29: when a top-level add_resource has raised, the Schema Registry has no
\* entry for the (resource_type, operation_type) it was building nor for any
\* relationship target it entered.
C29_FailedBuildLeavesNothing ==
    (last_call.name = "add_resource" /\ last_call.outcome = "raised") =>
        /\ ~HasEntry(last_call.key)
        /\ \A k \in visited : ~HasEntry(k)

\* the relationship the innermost add_resource call in progress is about to look at
NextRelationship == stack[Len(stack)].args.relationships_info[stack[Len(stack)].next][2]

AtRelationship ==
    /\ stack # << >>
    /\ stack[Len(stack)].next <= Len(stack[Len(stack)].args.relationships_info)

\* C30: after any add_resource, add_relationship and lookup calls, every
\* (source_schema, resource_type, operation_type) in _registered_schemas has
\* an entry for (resource_type, operation_type) in the registry; so a
\* relationship target that line 90 is about to skip has its "get" entry.
C30_GuardAgreesWithRegistry ==
    /\ \A t \in registered_schemas : HasEntry(<<t[2], t[3]>>)
    /\ (AtRelationship /\ TargetRegistered(registered_schemas, NextRelationship)) =>
           HasEntry(<<NextRelationship.resource_type, "get">>)

\* a build is about to skip a registered target, in a registry that
\* add_relationship or get_relationship_schema has been called on
C30_Witness ==
    /\ AtRelationship
    /\ TargetRegistered(registered_schemas, NextRelationship)
    /\ HasEntry(<<NextRelationship.resource_type, "get">>)
    /\ data_relationships.tables # {}

====
